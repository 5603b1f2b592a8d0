--------------------------- MODULE DeviceFlowProofs ---------------------------
(***************************************************************************)
(* Theorems about DeviceFlow, for any number of polls and logins at once   *)
(* and any users.                                                          *)
(*                                                                         *)
(* That a used code belongs to a session needs what every handler holds    *)
(* between its two accesses to the record (PollOK, LoginOK).  That there   *)
(* is only one session needs more (Once): in a code's life nothing but the *)
(* order of the steps keeps a login from authorizing a code that a poll is *)
(* turning into a session, and that order holds only while one poll and    *)
(* one login run at a time and neither dies half way.                      *)
(***************************************************************************)
EXTENDS DeviceFlow, TLAPS

PollAt(pc) == \E p \in Pollers : poll[p].at = pc
LoginAt(pc) == \E b \in Browsers : login[b].at = pc

\* What a poll knows: the status its copy was read with, and, past
\* createSession, that there is a session.
PollOK(p) ==
  /\ poll[p].at \in {"write", "session", "consume"} => poll[p].copy \in Record
  /\ poll[p].at = "write" => poll[p].copy.status = "pending"
  /\ poll[p].at = "session" =>
       poll[p].copy.status = "authorized" /\ poll[p].copy.user \in Entitled
  /\ poll[p].at \in {"reread", "consume", "issue"} => Redeemed

\* A login past the company has a user.
LoginOK(b) == login[b].at \in {"key", "check", "authorize", "page"} => login[b].user \in Users

Inv ==
  /\ TypeOK
  /\ \A p \in Pollers : PollOK(p)
  /\ \A b \in Browsers : LoginOK(b)
  /\ SpentMeansSession

(***************************************************************************)
(* While one poll and one login run at a time and nothing has failed.      *)
(***************************************************************************)
Alone ==
  /\ \A p, q \in Pollers : poll[p].at # "idle" /\ poll[q].at # "idle" => p = q
  /\ \A b, c \in Browsers : login[b].at # "idle" /\ login[c].at # "idle" => b = c

\* Nobody is about to write a status that was read before the code's session,
\* and nobody can read an earlier one.
NoWayBack == ~Is("pending") /\ ~PollAt("write") /\ ~LoginAt("authorize")

\* One session at most, for one user.
AtMostOne ==
  /\ \A u \in Users : sessions[u] < Many
  /\ \A u, v \in Users : sessions[u] > 0 /\ sessions[v] > 0 => u = v

Once ==
  /\ Alone
  /\ Redeemed \/ PollAt("session") => NoWayBack
  /\ Is("authorized") \/ Is("consumed") => ~LoginAt("authorize")
  /\ PollAt("session") => ~Redeemed
  /\ Redeemed /\ Is("authorized") => PollAt("reread") \/ PollAt("consume")
  /\ AtMostOne

OnceInv == overlap \/ fails > 0 \/ Once

(***************************************************************************)
(* Steps of one handler.                                                   *)
(***************************************************************************)
\* A poll that moves leaves the others where they are.
LEMMA PollMoves ==
  ASSUME TypeOK, NEW p \in Pollers, NEW pc \in PollPCs, NEW r \in Record \cup {None},
         SetPoll(p, pc, r)
  PROVE  /\ poll' \in [Pollers -> [at : PollPCs, copy : Record \cup {None}]]
         /\ poll'[p].at = pc /\ poll'[p].copy = r
         /\ \A q \in Pollers \ {p} : poll'[q] = poll[q]
  BY DEF TypeOK, SetPoll, Poll

\* So does a login.
LEMMA LoginMoves ==
  ASSUME TypeOK, NEW b \in Browsers, NEW pc \in LoginPCs, NEW u \in Users \cup {None},
         SetLogin(b, pc, u)
  PROVE  /\ login' \in [Browsers -> [at : LoginPCs, user : Users \cup {None}]]
         /\ login'[b].at = pc /\ login'[b].user = u
         /\ \A c \in Browsers \ {b} : login'[c] = login[c]
  BY DEF TypeOK, SetLogin, Login

\* A poll that touches neither the record nor the sessions.
LEMMA PollGoes ==
  ASSUME Inv, NEW p \in Pollers, NEW pc \in PollPCs, NEW r \in Record \cup {None},
         SetPoll(p, pc, r), PollOK(p)', overlap' \in BOOLEAN, fails' \in 0 .. MaxFails,
         UNCHANGED <<rec, byUser, expired, login, sessions, welcomed>>
  PROVE  Inv'
<1>1. TypeOK'
  BY PollMoves DEF Inv, TypeOK
<1>2. \A q \in Pollers : PollOK(q)'
  BY PollMoves DEF Inv, PollOK, Redeemed
<1> QED
  BY <1>1, <1>2 DEF Inv, LoginOK, SpentMeansSession, Is, Redeemed

\* A login that touches neither, either.
LEMMA LoginGoes ==
  ASSUME Inv, NEW b \in Browsers, NEW pc \in LoginPCs, NEW u \in Users \cup {None},
         SetLogin(b, pc, u), LoginOK(b)', overlap' \in BOOLEAN, fails' \in 0 .. MaxFails,
         welcomed' \subseteq Users,
         UNCHANGED <<rec, byUser, expired, poll, sessions>>
  PROVE  Inv'
<1>1. TypeOK'
  BY LoginMoves DEF Inv, TypeOK
<1>2. \A c \in Browsers : LoginOK(c)'
  BY LoginMoves DEF Inv, LoginOK
<1> QED
  BY <1>1, <1>2 DEF Inv, PollOK, SpentMeansSession, Is, Redeemed

\* The code as createDeviceCode leaves it.
LEMMA InitInv == Init => Inv /\ OnceInv
<1> SUFFICES ASSUME Init PROVE Inv /\ OnceInv
  OBVIOUS
<1>1. /\ \A p \in Pollers : poll[p].at = "idle"
      /\ \A b \in Browsers : login[b].at = "idle"
      /\ rec.status = "pending"
      /\ ~Redeemed
  BY DEF Init, Poll, Login, Redeemed
<1>2. TypeOK
  <2>1. rec \in Record /\ sessions \in [Users -> 0 .. Many] /\ fails \in 0 .. MaxFails
    BY SwitchAssumption DEF Init, Record, Many
  <2>2. /\ Poll("idle", None) \in [at : PollPCs, copy : Record \cup {None}]
        /\ Login("idle", None) \in [at : LoginPCs, user : Users \cup {None}]
    BY DEF Poll, Login, PollPCs, LoginPCs
  <2> QED
    BY <2>1, <2>2 DEF Init, TypeOK
<1>3. Inv
  BY <1>1, <1>2 DEF Inv, PollOK, LoginOK, SpentMeansSession, Is
<1>4. OnceInv
  BY <1>1 DEF OnceInv, Once, Alone, NoWayBack, AtMostOne, Redeemed, PollAt, LoginAt, Is, Init, Many
<1> QED BY <1>3, <1>4

(***************************************************************************)
(* Inv is inductive: the polls.                                            *)
(***************************************************************************)
\* What the steps take from type correctness.
LEMMA Types == ASSUME Inv
               PROVE  /\ rec \in Record \cup {None} /\ welcomed \subseteq Users
                      /\ overlap \in BOOLEAN /\ fails \in 0 .. MaxFails
                      /\ None \in Record \cup {None} /\ None \in Users \cup {None}
  BY DEF Inv, TypeOK

\* A pending code: the poll keeps its copy.
LEMMA PollPendingInv == ASSUME Inv, NEW p \in Pollers, PollPending(p) PROVE Inv'
<1>1. "write" \in PollPCs /\ rec \in Record /\ rec.status = "pending"
  BY Types DEF PollPending, PollPCs, Is, Inv, TypeOK
<1>2. SetPoll(p, "write", rec) /\ overlap' \in BOOLEAN
  BY Types DEF PollPending, Polling
<1>3. PollOK(p)'
  BY <1>1, <1>2, PollMoves DEF PollOK, Inv
<1> QED
  BY <1>1, <1>2, <1>3, Types, PollGoes DEF PollPending

\* An authorized one.
LEMMA PollAuthorizedInv == ASSUME Inv, NEW p \in Pollers, PollAuthorized(p) PROVE Inv'
<1>1. "session" \in PollPCs /\ rec \in Record /\ rec.status = "authorized" /\ rec.user \in Entitled
  BY Types DEF PollAuthorized, PollPCs, Is, Inv, TypeOK
<1>2. SetPoll(p, "session", rec) /\ overlap' \in BOOLEAN
  BY Types DEF PollAuthorized, Polling
<1>3. PollOK(p)'
  BY <1>1, <1>2, PollMoves DEF PollOK, Inv
<1> QED
  BY <1>1, <1>2, <1>3, Types, PollGoes DEF PollAuthorized

\* The handler ends, with an answer or because it failed.
LEMMA AnswerInv ==
  ASSUME Inv, NEW p \in Pollers, Answer(p), fails' \in 0 .. MaxFails,
         UNCHANGED <<rec, byUser, expired, login, sessions, welcomed, overlap>>
  PROVE  Inv'
<1>1. "idle" \in PollPCs /\ SetPoll(p, "idle", None)
  BY DEF Answer, PollPCs
<1>2. PollOK(p)'
  BY <1>1, Types, PollMoves DEF PollOK, Inv
<1> QED
  BY <1>1, <1>2, Types, PollGoes

\* The copy of a pending code goes back.
LEMMA UpdateInv == ASSUME Inv, NEW p \in Pollers, UpdateDeviceCode(p) PROVE Inv'
<1>1. "idle" \in PollPCs /\ SetPoll(p, "idle", None)
  BY DEF UpdateDeviceCode, Answer, PollPCs
<1>2. rec' \in Record /\ rec'.status = "pending"
  BY DEF UpdateDeviceCode, Inv, PollOK
<1>3. TypeOK'
  BY <1>1, <1>2, PollMoves DEF UpdateDeviceCode, Inv, TypeOK
<1>4. \A q \in Pollers : PollOK(q)'
  BY <1>1, Types, PollMoves DEF UpdateDeviceCode, Inv, PollOK, Redeemed
<1> QED
  BY <1>2, <1>3, <1>4 DEF UpdateDeviceCode, Inv, LoginOK, SpentMeansSession, Is

\* The session is created for a user of the company.
LEMMA CreateSessionInv == ASSUME Inv, NEW p \in Pollers, CreateSession(p) PROVE Inv'
<1> DEFINE u == poll[p].copy.user
<1>1. u \in Users
  BY UsersAssumption DEF CreateSession, Inv, PollOK
<1>2. "reread" \in PollPCs /\ SetPoll(p, "reread", None)
  BY DEF CreateSession, PollPCs
<1>3. sessions' = [sessions EXCEPT ![u] = IF @ < Many THEN @ + 1 ELSE @]
  BY DEF CreateSession
<1> HIDE DEF u
<1>4. sessions' \in [Users -> 0 .. Many] /\ sessions'[u] > 0
  BY <1>1, <1>3 DEF Inv, TypeOK, Many
<1>5. Redeemed'
  BY <1>1, <1>4 DEF Redeemed
<1>6. TypeOK'
  BY <1>2, <1>4, PollMoves DEF CreateSession, Inv, TypeOK
<1>7. \A q \in Pollers : PollOK(q)'
  BY <1>2, <1>5, Types, PollMoves DEF CreateSession, Inv, PollOK
<1> QED
  BY <1>5, <1>6, <1>7 DEF CreateSession, Inv, LoginOK, SpentMeansSession

\* consumeDeviceCode reads the record.
LEMMA ConsumeGetInv == ASSUME Inv, NEW p \in Pollers, ConsumeGet(p) PROVE Inv'
<1>1. Redeemed /\ "consume" \in PollPCs /\ "issue" \in PollPCs
  BY DEF ConsumeGet, Inv, PollOK, PollPCs
<1>2. Redeemed'
  BY <1>1 DEF ConsumeGet, Redeemed
<1>3. CASE Is("authorized") /\ SetPoll(p, "consume", rec)
  <2>1. rec \in Record
    BY <1>3, Types DEF Is
  <2>2. PollOK(p)'
    BY <1>1, <1>2, <1>3, <2>1, PollMoves DEF PollOK, Inv
  <2> QED
    BY <1>1, <1>3, <2>1, <2>2, Types, PollGoes DEF ConsumeGet
<1>4. CASE SetPoll(p, "issue", None)
  <2>1. PollOK(p)'
    BY <1>1, <1>2, <1>4, Types, PollMoves DEF PollOK, Inv
  <2> QED
    BY <1>1, <1>4, <2>1, Types, PollGoes DEF ConsumeGet
<1> QED
  BY <1>3, <1>4 DEF ConsumeGet

\* It writes it; there is a session by then.
LEMMA ConsumeSetInv == ASSUME Inv, NEW p \in Pollers, ConsumeSet(p) PROVE Inv'
<1>1. Redeemed /\ "issue" \in PollPCs /\ SetPoll(p, "issue", None)
  BY DEF ConsumeSet, Inv, PollOK, PollPCs
<1>2. Redeemed'
  BY <1>1 DEF ConsumeSet, Redeemed
<1>3. rec' \in Record
  BY DEF ConsumeSet, Inv, PollOK, Record
<1>4. TypeOK'
  BY <1>1, <1>3, Types, PollMoves DEF ConsumeSet, Inv, TypeOK
<1>5. \A q \in Pollers : PollOK(q)'
  BY <1>1, <1>2, Types, PollMoves DEF ConsumeSet, Inv, PollOK
<1> QED
  BY <1>2, <1>4, <1>5 DEF ConsumeSet, Inv, LoginOK, SpentMeansSession

(***************************************************************************)
(* The logins.                                                             *)
(***************************************************************************)
\* The page of a login that ends, whatever it shows.
LEMMA PageInv ==
  ASSUME Inv, NEW b \in Browsers, Page(b), fails' \in 0 .. MaxFails, welcomed' \subseteq Users,
         UNCHANGED <<rec, byUser, expired, poll, sessions, overlap>>
  PROVE  Inv'
<1>1. "idle" \in LoginPCs /\ SetLogin(b, "idle", None)
  BY DEF Page, LoginPCs
<1>2. LoginOK(b)'
  BY <1>1, Types, LoginMoves DEF LoginOK, Inv
<1> QED
  BY <1>1, <1>2, Types, LoginGoes

\* A login that goes on, with the user it has by then.
LEMMA LoginContinues ==
  ASSUME Inv, NEW b \in Browsers, NEW pc \in LoginPCs, NEW u \in Users \cup {None},
         SetLogin(b, pc, u), pc \in {"record", "company"} \/ u \in Users,
         overlap' \in BOOLEAN, UNCHANGED <<rec, byUser, expired, poll, sessions, welcomed, fails>>
  PROVE  Inv'
<1>1. LoginOK(b)'
  BY LoginMoves DEF LoginOK, Inv
<1> QED
  BY <1>1, Types, LoginGoes

\* The form is sent, and the record looked up.
LEMMA SubmitInv == ASSUME Inv, NEW b \in Browsers, Submit(b) \/ CheckPending(b) PROVE Inv'
<1>1. "record" \in LoginPCs /\ "company" \in LoginPCs
  BY DEF LoginPCs
<1>2. CASE Submit(b)
  <2>1. SetLogin(b, "record", None) /\ overlap' \in BOOLEAN
    BY <1>2, Types DEF Submit
  <2> QED
    BY <1>1, <1>2, <2>1, Types, LoginContinues DEF Submit
<1>3. CASE CheckPending(b) /\ SetLogin(b, "company", None)
  BY <1>1, <1>3, Types, LoginContinues DEF CheckPending
<1>4. CASE CheckPending(b) /\ Page(b)
  BY <1>4, Types, PageInv DEF CheckPending
<1> QED
  BY <1>2, <1>3, <1>4 DEF CheckPending

\* The company answers; authorizeDeviceCode looks the code up.
LEMMA LookInv ==
  ASSUME Inv, NEW b \in Browsers, LoginWithCompany(b) \/ AuthorizeKey(b) \/ AuthorizeCheck(b)
  PROVE  Inv'
<1>1. "key" \in LoginPCs /\ "check" \in LoginPCs /\ "page" \in LoginPCs /\ "authorize" \in LoginPCs
  BY DEF LoginPCs
<1>2. CASE LoginWithCompany(b)
  <2>1. CASE Page(b)
    BY <1>2, <2>1, Types, PageInv DEF LoginWithCompany
  <2>2. ASSUME NEW u \in Users, SetLogin(b, "key", u) PROVE Inv'
    BY <1>1, <1>2, <2>2, Types, LoginContinues DEF LoginWithCompany
  <2> QED
    BY <1>2, <2>1, <2>2 DEF LoginWithCompany
<1>3. CASE AuthorizeKey(b) \/ AuthorizeCheck(b)
  <2>1. login[b].user \in Users
    BY <1>3 DEF AuthorizeKey, AuthorizeCheck, Inv, LoginOK
  <2>2. PICK pc \in {"check", "page", "authorize"} : SetLogin(b, pc, login[b].user)
    BY <1>3 DEF AuthorizeKey, AuthorizeCheck
  <2> QED
    BY <1>1, <1>3, <2>1, <2>2, Types, LoginContinues DEF AuthorizeKey, AuthorizeCheck
<1> QED
  BY <1>2, <1>3

\* The code is authorized for the user who logged in.
LEMMA AuthorizeSetInv == ASSUME Inv, NEW b \in Browsers, AuthorizeSet(b) PROVE Inv'
<1>1. login[b].user \in Users
  BY DEF AuthorizeSet, Inv, LoginOK
<1>2. "page" \in LoginPCs /\ SetLogin(b, "page", login[b].user)
  BY DEF AuthorizeSet, LoginPCs
<1>3. rec' \in Record /\ rec'.status = "authorized"
  BY <1>1 DEF AuthorizeSet, Record
<1>4. TypeOK'
  BY <1>1, <1>2, <1>3, LoginMoves DEF AuthorizeSet, Inv, TypeOK
<1>5. \A c \in Browsers : LoginOK(c)'
  BY <1>1, <1>2, LoginMoves DEF AuthorizeSet, Inv, LoginOK
<1> QED
  BY <1>3, <1>4, <1>5 DEF AuthorizeSet, Inv, PollOK, SpentMeansSession, Redeemed, Is

\* The success page.
LEMMA SuccessPageInv == ASSUME Inv, NEW b \in Browsers, SuccessPage(b) PROVE Inv'
<1>1. login[b].user \in Users
  BY DEF SuccessPage, Inv, LoginOK
<1> QED
  BY <1>1, Types, PageInv DEF SuccessPage

(***************************************************************************)
(* The environment, and all steps together.                                *)
(***************************************************************************)
\* A handler fails; the code runs out; Redis drops its keys.
LEMMA EnvironmentInv == ASSUME Inv, Fail \/ Expire \/ KeyExpire PROVE Inv'
<1>1. CASE Fail
  <2>1. fails' \in 0 .. MaxFails
    BY <1>1, Types, SwitchAssumption DEF Fail
  <2>2. ASSUME NEW p \in Pollers, Answer(p), UNCHANGED login PROVE Inv'
    BY <1>1, <2>1, <2>2, AnswerInv DEF Fail
  <2>3. ASSUME NEW b \in Browsers, Page(b), UNCHANGED poll PROVE Inv'
    BY <1>1, <2>1, <2>3, Types, PageInv DEF Fail
  <2> QED
    BY <1>1, <2>2, <2>3 DEF Fail
<1>2. CASE Expire \/ KeyExpire
  BY <1>2 DEF Expire, KeyExpire, Inv, TypeOK, PollOK, LoginOK, SpentMeansSession, Redeemed, Is
<1> QED
  BY <1>1, <1>2

\* Inv is inductive.
LEMMA StepInv == Inv /\ [Next]_vars => Inv'
<1> SUFFICES ASSUME Inv, [Next]_vars PROVE Inv'
  OBVIOUS
<1>1. ASSUME NEW p \in Pollers, PollRejected(p) \/ PollNext(p) \/ PollStep(p) PROVE Inv'
  <2>1. CASE PollRejected(p)
    BY <2>1 DEF PollRejected, vars, Inv, TypeOK, PollOK, LoginOK, SpentMeansSession, Redeemed, Is
  <2>2. CASE Issue(p)
    <3>1. fails' \in 0 .. MaxFails
      BY <2>2, Types DEF Issue
    <3> QED
      BY <2>2, <3>1, AnswerInv DEF Issue
  <2> QED
    BY <1>1, <2>1, <2>2, PollPendingInv, PollAuthorizedInv, UpdateInv, CreateSessionInv,
       ConsumeGetInv, ConsumeSetInv DEF PollNext, PollStep
<1>2. ASSUME NEW b \in Browsers, Submit(b) \/ LoginStep(b) PROVE Inv'
  BY <1>2, SubmitInv, LookInv, AuthorizeSetInv, SuccessPageInv DEF LoginStep
<1>3. CASE Fail \/ Expire \/ KeyExpire
  BY <1>3, EnvironmentInv
<1>4. CASE UNCHANGED vars
  BY <1>4 DEF vars, Inv, TypeOK, PollOK, LoginOK, SpentMeansSession, Redeemed, Is
<1> QED
  BY <1>1, <1>2, <1>3, <1>4 DEF Next

(***************************************************************************)
(* Once is preserved by every step that neither overlaps nor fails.        *)
(***************************************************************************)
\* What such a step starts from.
LEMMA StillOnce ==
  ASSUME Inv, OnceInv, ~overlap', ~(fails' > 0),
         overlap' = overlap \/ overlap' = (overlap \/ Polling)
           \/ overlap' = (overlap \/ \E c \in Browsers : login[c].at # "idle"),
         fails' = fails \/ fails' = fails + 1
  PROVE  Once
  BY Types, SwitchAssumption DEF OnceInv

\* A poll leaves its place for another one that is no better.
LEMMA PollOnce ==
  ASSUME Inv, Once, NEW p \in Pollers, NEW pc \in PollPCs, NEW r \in Record \cup {None},
         SetPoll(p, pc, r), poll[p].at # "idle", pc \notin {"write", "session"},
         UNCHANGED <<rec, login, sessions>>,
         poll[p].at \in {"reread", "consume"} => pc = "consume" \/ ~Is("authorized")
  PROVE  Once'
<1>1. TypeOK
  BY DEF Inv
<1>2. Alone'
  BY <1>1, PollMoves DEF Once, Alone
<1>3. (PollAt("write")' => PollAt("write")) /\ (PollAt("session")' => PollAt("session"))
  BY <1>1, PollMoves DEF PollAt
<1>4. Redeemed' /\ Is("authorized")' => PollAt("reread")' \/ PollAt("consume")'
  <2>1. SUFFICES ASSUME Redeemed, Is("authorized") PROVE PollAt("reread")' \/ PollAt("consume")'
    BY DEF Redeemed, Is
  <2>2. PICK q \in Pollers : poll[q].at \in {"reread", "consume"}
    BY <2>1 DEF Once, PollAt
  <2> QED
    BY <1>1, <2>1, <2>2, PollMoves DEF PollAt
<1> QED
  BY <1>2, <1>3, <1>4 DEF Once, NoWayBack, LoginAt, AtMostOne, Redeemed, Is

\* A poll starts with an authorized code: it has no session yet, for the poll
\* that would have created it would still be there.
LEMMA PollNextOnce == ASSUME Inv, OnceInv, NEW p \in Pollers, PollNext(p) PROVE OnceInv'
<1> SUFFICES ASSUME ~overlap', ~(fails' > 0) PROVE Once'
  BY DEF OnceInv
<1>1. Once /\ TypeOK
  BY StillOnce DEF PollNext, PollPending, PollAuthorized, Inv
<1>2. \A q \in Pollers : poll[q].at = "idle"
  BY DEF PollNext, PollPending, PollAuthorized, Polling
<1>3. PICK pc \in {"write", "session"} :
        SetPoll(p, pc, rec) /\ Is(IF pc = "write" THEN "pending" ELSE "authorized")
  BY DEF PollNext, PollPending, PollAuthorized
<1>4. pc \in PollPCs /\ rec \in Record \cup {None} /\ UNCHANGED <<rec, login, sessions>>
  BY Types DEF PollNext, PollPending, PollAuthorized, PollPCs
<1>5. poll'[p].at = pc /\ \A q \in Pollers \ {p} : poll'[q].at = "idle"
  BY <1>1, <1>2, <1>3, <1>4, PollMoves
<1>6. Alone'
  BY <1>1, <1>4, <1>5 DEF Once, Alone
<1>7. ~(Redeemed /\ Is("authorized"))
  BY <1>1, <1>2 DEF Once, PollAt
<1>8. CASE pc = "write"
  BY <1>1, <1>3, <1>4, <1>5, <1>6, <1>7, <1>8
     DEF Once, NoWayBack, PollAt, LoginAt, AtMostOne, Redeemed, Is
<1>9. CASE pc = "session"
  BY <1>1, <1>3, <1>4, <1>5, <1>6, <1>7, <1>9
     DEF Once, NoWayBack, PollAt, LoginAt, AtMostOne, Redeemed, Is
<1> QED
  BY <1>8, <1>9

\* The copy of a pending code goes back while there is no session.
LEMMA UpdateOnce == ASSUME Inv, OnceInv, NEW p \in Pollers, UpdateDeviceCode(p) PROVE OnceInv'
<1> SUFFICES ASSUME ~overlap', ~(fails' > 0) PROVE Once'
  BY DEF OnceInv
<1>1. Once /\ TypeOK
  BY StillOnce DEF UpdateDeviceCode, Inv
<1>2. /\ SetPoll(p, "idle", None) /\ "idle" \in PollPCs /\ poll[p].at = "write"
      /\ UNCHANGED <<login, sessions>>
  BY DEF UpdateDeviceCode, Answer, PollPCs
<1>3. rec' \in Record /\ rec'.status = "pending"
  BY DEF UpdateDeviceCode, Inv, PollOK
<1>4. ~Redeemed /\ ~PollAt("session")
  BY <1>1, <1>2 DEF Once, NoWayBack, PollAt
<1>5. \A q \in Pollers : poll'[q].at = poll[q].at \/ poll'[q].at = "idle"
  BY <1>1, <1>2, Types, PollMoves
<1> QED
  BY <1>1, <1>2, <1>3, <1>4, <1>5
     DEF Once, Alone, NoWayBack, PollAt, LoginAt, AtMostOne, Redeemed, Is

\* The first session, and the only poll that may go on to consume the code.
LEMMA CreateSessionOnce == ASSUME Inv, OnceInv, NEW p \in Pollers, CreateSession(p) PROVE OnceInv'
<1> SUFFICES ASSUME ~overlap', ~(fails' > 0) PROVE Once'
  BY DEF OnceInv
<1> DEFINE u == poll[p].copy.user
<1>1. Once /\ TypeOK
  BY StillOnce DEF CreateSession, Inv
<1>2. /\ SetPoll(p, "reread", None) /\ "reread" \in PollPCs /\ poll[p].at = "session"
      /\ UNCHANGED <<rec, login>>
      /\ sessions' = [sessions EXCEPT ![u] = IF @ < Many THEN @ + 1 ELSE @]
  BY DEF CreateSession, PollPCs
<1>3. u \in Users
  BY UsersAssumption DEF CreateSession, Inv, PollOK
<1> HIDE DEF u
<1>4. ~Redeemed /\ NoWayBack /\ ~LoginAt("authorize")
  BY <1>1, <1>2 DEF Once, PollAt, NoWayBack
<1>5. \A v \in Users : sessions[v] = 0
  BY <1>1, <1>4 DEF Redeemed, TypeOK, Many
<1>6. AtMostOne'
  BY <1>1, <1>2, <1>3, <1>5 DEF AtMostOne, TypeOK, Many
<1>7. poll'[p].at = "reread" /\ \A q \in Pollers \ {p} : poll'[q] = poll[q]
  BY <1>1, <1>2, Types, PollMoves
<1>8. Alone'
  BY <1>1, <1>2, <1>7 DEF Once, Alone
<1>9. ~PollAt("session")' /\ PollAt("reread")'
  BY <1>2, <1>7, <1>8 DEF PollAt, Alone
<1>10. NoWayBack' /\ ~LoginAt("authorize")'
  BY <1>2, <1>4, <1>7 DEF NoWayBack, Is, PollAt, LoginAt
<1> QED
  BY <1>6, <1>8, <1>9, <1>10 DEF Once

\* consumeDeviceCode, and the answer.
LEMMA ConsumeOnce ==
  ASSUME Inv, OnceInv, NEW p \in Pollers, ConsumeGet(p) \/ ConsumeSet(p) \/ Issue(p)
  PROVE  OnceInv'
<1> SUFFICES ASSUME ~overlap', ~(fails' > 0) PROVE Once'
  BY DEF OnceInv
<1>1. Once /\ TypeOK
  BY StillOnce DEF ConsumeGet, ConsumeSet, Issue, Inv
<1>2. "consume" \in PollPCs /\ "issue" \in PollPCs /\ "idle" \in PollPCs
  BY DEF PollPCs
<1>3. CASE ConsumeGet(p) \/ Issue(p)
  <2>1. CASE ConsumeGet(p) /\ Is("authorized") /\ SetPoll(p, "consume", rec)
    BY <1>1, <1>2, <2>1, Types, PollOnce DEF ConsumeGet
  <2>2. CASE ConsumeGet(p) /\ ~Is("authorized") /\ SetPoll(p, "issue", None)
    BY <1>1, <1>2, <2>2, Types, PollOnce DEF ConsumeGet
  <2>3. CASE Issue(p)
    BY <1>1, <1>2, <2>3, Types, PollOnce DEF Issue, Answer
  <2> QED
    BY <1>3, <2>1, <2>2, <2>3 DEF ConsumeGet
<1>4. CASE ConsumeSet(p)
  <2>1. /\ SetPoll(p, "issue", None) /\ poll[p].at = "consume"
        /\ UNCHANGED <<login, sessions>> /\ rec'.status = "consumed"
    BY <1>4 DEF ConsumeSet
  <2>2. Redeemed
    BY <2>1 DEF Inv, PollOK
  <2>3. ~LoginAt("authorize") /\ ~PollAt("write") /\ ~PollAt("session")
    BY <1>1, <2>2 DEF Once, NoWayBack
  <2>4. poll'[p].at = "issue" /\ \A q \in Pollers \ {p} : poll'[q] = poll[q]
    BY <1>1, <1>2, <2>1, Types, PollMoves
  <2>5. Alone'
    BY <1>1, <2>1, <2>4 DEF Once, Alone
  <2> QED
    BY <1>1, <2>1, <2>2, <2>3, <2>4, <2>5
       DEF Once, NoWayBack, PollAt, LoginAt, AtMostOne, Redeemed, Is
<1> QED
  BY <1>3, <1>4

\* A login that only looks, or starts.
LEMMA LoginOnce ==
  ASSUME Inv, Once, NEW b \in Browsers, NEW pc \in LoginPCs, NEW u \in Users \cup {None},
         SetLogin(b, pc, u), UNCHANGED <<rec, poll, sessions>>,
         login[b].at # "idle" \/ \A c \in Browsers : login[c].at = "idle",
         pc = "authorize" => Is("pending")
  PROVE  Once'
<1>1. TypeOK
  BY DEF Inv
<1>2. Alone'
  BY <1>1, LoginMoves DEF Once, Alone
<1>3. LoginAt("authorize")' => LoginAt("authorize") \/ Is("pending")
  BY <1>1, LoginMoves DEF LoginAt
<1> QED
  BY <1>2, <1>3 DEF Once, NoWayBack, PollAt, AtMostOne, Redeemed, Is

\* All steps of a login but the one that writes.
LEMMA LooksOnce ==
  ASSUME Inv, OnceInv, NEW b \in Browsers,
         \/ Submit(b) \/ CheckPending(b) \/ LoginWithCompany(b)
         \/ AuthorizeKey(b) \/ AuthorizeCheck(b) \/ SuccessPage(b)
  PROVE  OnceInv'
<1> SUFFICES ASSUME ~overlap', ~(fails' > 0) PROVE Once'
  BY DEF OnceInv
<1>1. Once
  BY StillOnce DEF Submit, CheckPending, LoginWithCompany, AuthorizeKey, AuthorizeCheck, SuccessPage
<1>2. /\ UNCHANGED <<rec, poll, sessions>>
      /\ login[b].at # "idle" \/ \A c \in Browsers : login[c].at = "idle"
  BY DEF Submit, CheckPending, LoginWithCompany, AuthorizeKey, AuthorizeCheck, SuccessPage
<1>3. \E pc \in LoginPCs, u \in Users \cup {None} :
        SetLogin(b, pc, u) /\ (pc = "authorize" => Is("pending"))
  <2>1. login[b].user \in Users \cup {None}
    BY DEF Inv, TypeOK
  <2>2. CASE Submit(b) \/ CheckPending(b)
    BY <2>2 DEF Submit, CheckPending, Page, LoginPCs
  <2>3. CASE LoginWithCompany(b) \/ SuccessPage(b)
    BY <2>3 DEF LoginWithCompany, SuccessPage, Page, LoginPCs
  <2>4. CASE AuthorizeKey(b) \/ AuthorizeCheck(b)
    BY <2>1, <2>4 DEF AuthorizeKey, AuthorizeCheck, LoginPCs
  <2> QED
    BY <2>2, <2>3, <2>4
<1> QED
  BY <1>1, <1>2, <1>3, LoginOnce

\* The code is authorized while it is pending or gone, and has no session.
LEMMA AuthorizeSetOnce == ASSUME Inv, OnceInv, NEW b \in Browsers, AuthorizeSet(b) PROVE OnceInv'
<1> SUFFICES ASSUME ~overlap', ~(fails' > 0) PROVE Once'
  BY DEF OnceInv
<1>1. Once /\ TypeOK
  BY StillOnce DEF AuthorizeSet, Inv
<1>2. /\ SetLogin(b, "page", login[b].user) /\ "page" \in LoginPCs /\ login[b].at = "authorize"
      /\ login[b].user \in Users \cup {None} /\ UNCHANGED <<poll, sessions>>
      /\ rec'.status = "authorized"
  BY <1>1 DEF AuthorizeSet, LoginPCs, TypeOK
<1>3. ~Redeemed /\ ~PollAt("session")
  BY <1>1, <1>2 DEF Once, NoWayBack, LoginAt
<1>4. login'[b].at = "page" /\ \A c \in Browsers \ {b} : login'[c] = login[c]
  BY <1>1, <1>2, LoginMoves
<1>5. Alone' /\ ~LoginAt("authorize")'
  BY <1>1, <1>2, <1>4 DEF Once, Alone, LoginAt
<1> QED
  BY <1>1, <1>2, <1>3, <1>5 DEF Once, PollAt, AtMostOne, Redeemed, Is

\* OnceInv is preserved where Inv holds.
LEMMA StepOnce == Inv /\ OnceInv /\ [Next]_vars => OnceInv'
<1> SUFFICES ASSUME Inv, OnceInv, [Next]_vars PROVE OnceInv'
  OBVIOUS
<1>1. ASSUME NEW p \in Pollers, PollRejected(p) \/ PollNext(p) \/ PollStep(p) PROVE OnceInv'
  <2>1. CASE PollRejected(p)
    BY <2>1 DEF PollRejected, vars, OnceInv, Once, Alone, NoWayBack, AtMostOne, Redeemed,
       PollAt, LoginAt, Is
  <2> QED
    BY <1>1, <2>1, PollNextOnce, UpdateOnce, CreateSessionOnce, ConsumeOnce DEF PollStep
<1>2. ASSUME NEW b \in Browsers, Submit(b) \/ LoginStep(b) PROVE OnceInv'
  BY <1>2, LooksOnce, AuthorizeSetOnce DEF LoginStep
<1>3. CASE Fail
  <2>1. fails' > 0
    BY <1>3, Types, SwitchAssumption DEF Fail
  <2> QED
    BY <2>1 DEF OnceInv
<1>4. CASE Expire \/ KeyExpire \/ UNCHANGED vars
  BY <1>4 DEF Expire, KeyExpire, vars, OnceInv, Once, Alone, NoWayBack, AtMostOne, Redeemed,
     PollAt, LoginAt, Is
<1> QED
  BY <1>1, <1>2, <1>3, <1>4 DEF Next

(***************************************************************************)
(* The theorems.                                                           *)
(***************************************************************************)
\* Type correctness of the record, the polls and the logins, with what every
\* handler of token.ts and verify.ts knows between two awaits.
THEOREM DeviceInductive == Spec => [](Inv /\ OnceInv)
<1>1. Init => Inv /\ OnceInv
  BY InitInv
<1>2. (Inv /\ OnceInv) /\ [Next]_vars => (Inv /\ OnceInv)'
  BY StepInv, StepOnce
<1> QED
  BY <1>1, <1>2, PTL DEF Spec

\* Every state of the device flow is well formed.
THEOREM DeviceTyped == Spec => []TypeOK
<1>1. Inv => TypeOK
  BY DEF Inv
<1> QED
  BY <1>1, DeviceInductive, PTL

\* A device code that is used up belongs to a session: consumeDeviceCode comes
\* after createSession, whatever fails or overlaps.
THEOREM SpentCodeHasSession == Spec => []SpentMeansSession
<1>1. Inv => SpentMeansSession
  BY DEF Inv
<1> QED
  BY <1>1, DeviceInductive, PTL

\* One poll and one login at a time, and nothing that fails: the code gives one
\* session, to one user.
THEOREM CodeIsOneTime == Spec => []SequentialOnce
<1>1. Inv /\ OnceInv => SequentialOnce
  BY DEF OnceInv, Once, AtMostOne, SequentialOnce
<1> QED
  BY <1>1, DeviceInductive, PTL

\* The record's status goes back only in updateDeviceCode, with a copy read as
\* pending, or in authorizeDeviceCode, after a check that the code was pending.
THEOREM OnlyStaleCopiesGoBack == Spec => BackwardsOnlyByStaleCopy
<1> DEFINE Back == rec # None /\ rec' # None /\ Rank[rec'.status] < Rank[rec.status] =>
             \/ rec'.status = "pending" /\ \E p \in Pollers : poll[p].at = "write" /\ poll'[p].at = "idle"
             \/ rec'.status = "authorized" /\ \E b \in Browsers : login[b].at = "authorize" /\ login'[b].at = "page"
<1>1. Inv /\ [Next]_vars => [Back]_vars
  <2> SUFFICES ASSUME Inv, [Next]_vars, rec # None, rec' # None,
                      Rank[rec'.status] < Rank[rec.status]
               PROVE  Back
    OBVIOUS
  <2>0. TypeOK /\ rec \in Record
    BY DEF Inv, TypeOK
  <2>1. Rank[rec.status] \in Nat /\ Rank[rec.status] <= 2
    BY <2>0 DEF Rank, Record
  <2>2. ASSUME rec' = rec PROVE FALSE
    BY <2>1, <2>2
  <2>3. ASSUME NEW p \in Pollers, UpdateDeviceCode(p) PROVE Back
    <3>1. rec'.status = "pending" /\ poll[p].at = "write"
      BY <2>3 DEF UpdateDeviceCode, Inv, PollOK
    <3>2. poll'[p].at = "idle"
      BY <2>0, <2>3, Types, PollMoves DEF UpdateDeviceCode, Answer, PollPCs
    <3> QED
      BY <3>1, <3>2
  <2>4. ASSUME NEW p \in Pollers, ConsumeSet(p) PROVE FALSE
    BY <2>1, <2>4 DEF ConsumeSet, Rank
  <2>5. ASSUME NEW b \in Browsers, AuthorizeSet(b) PROVE Back
    <3>1. rec'.status = "authorized" /\ login[b].at = "authorize"
      BY <2>5 DEF AuthorizeSet
    <3>2. login'[b].at = "page"
      BY <2>0, <2>5, LoginMoves DEF AuthorizeSet, TypeOK, LoginPCs
    <3> QED
      BY <3>1, <3>2
  <2>6. ASSUME NEW p \in Pollers, PollRejected(p) \/ PollNext(p) \/ PollStep(p) PROVE Back
    BY <2>2, <2>3, <2>4, <2>6
       DEF PollRejected, PollNext, PollPending, PollAuthorized, PollStep, CreateSession,
           ConsumeGet, Issue, vars
  <2>7. ASSUME NEW b \in Browsers, Submit(b) \/ LoginStep(b) PROVE Back
    BY <2>2, <2>5, <2>7
       DEF Submit, LoginStep, CheckPending, LoginWithCompany, AuthorizeKey, AuthorizeCheck,
           SuccessPage
  <2>8. CASE Fail \/ Expire \/ KeyExpire \/ UNCHANGED vars
    BY <2>2, <2>8 DEF Fail, Expire, KeyExpire, vars
  <2> QED
    BY <2>6, <2>7, <2>8 DEF Next
<1> QED
  BY <1>1, DeviceInductive, PTL DEF BackwardsOnlyByStaleCopy, Spec
=============================================================================
