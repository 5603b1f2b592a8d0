---------------------------- MODULE BackOfficeProofs ----------------------------
(***************************************************************************)
(* The back office keeps what its two parts promise, each under the steps  *)
(* of the other: from AdminsProofs and RegistrationProofs.                 *)
(***************************************************************************)
EXTENDS BackOffice, TLAPS

AP == INSTANCE AdminsProofs
RP == INSTANCE RegistrationProofs

BackOfficeInv == AP!AdminsInv /\ RP!RegistrationInv

\* INSTANCE makes a copy of every definition, those of FiniteSets included.
LEMMA SameFiniteSets ==
  ASSUME NEW S
  PROVE  /\ AP!IsFiniteSet(S) <=> A!IsFiniteSet(S)
         /\ RP!IsFiniteSet(S) <=> R!IsFiniteSet(S)
         /\ AP!Cardinality(S) = A!Cardinality(S)
         /\ RP!Cardinality(S) = R!Cardinality(S)
BY DEF AP!IsFiniteSet, A!IsFiniteSet, RP!IsFiniteSet, R!IsFiniteSet,
       AP!Cardinality, A!Cardinality, RP!Cardinality, R!Cardinality

\* The copies of Admins and, below, of Registration inside the proof modules say
\* what BackOffice's own say.
LEMMA SameAdmins ==
  /\ AP!IdsAssumption <=> A!IdsAssumption
  /\ AP!Init <=> A!Init
  /\ AP!Session <=> A!Session
  /\ AP!Manage <=> A!Manage
  /\ AP!TypeOK <=> A!TypeOK
  /\ AP!LastAdminKept <=> A!LastAdminKept
  /\ AP!OldPasswordIsOwn <=> A!OldPasswordIsOwn
<1>1. AP!IdsAssumption <=> A!IdsAssumption
  BY SameFiniteSets DEF AP!IdsAssumption, A!IdsAssumption
<1>2. AP!Init <=> A!Init
  BY DEF AP!Init, A!Init
<1>3. AP!Session <=> A!Session
  BY DEF AP!Session, A!Session, AP!Login, A!Login, AP!CookieGone, A!CookieGone,
         AP!Cookie, A!Cookie, AP!admins, A!admins
<1>4. AP!Manage <=> A!Manage
  <2>1. ASSUME NEW i, NEW n
        PROVE  AP!Create(i, n) <=> A!Create(i, n)
    BY DEF AP!Create, A!Create, AP!Taken, A!Taken
  <2>2. ASSUME NEW c, NEW i, NEW n
        PROVE  AP!Rename(c, i, n) <=> A!Rename(c, i, n)
    BY DEF AP!Rename, A!Rename, AP!Taken, A!Taken, AP!Cookie, A!Cookie,
           AP!admins, A!admins
  <2>3. ASSUME NEW r, NEW c, NEW i
        PROVE  AP!CheckDelete(r, c, i) <=> A!CheckDelete(r, c, i)
    BY SameFiniteSets
    DEF AP!CheckDelete, A!CheckDelete, AP!Await, A!Await, AP!Request, A!Request,
        AP!admins, A!admins, AP!Deleting, A!Deleting
  <2>4. ASSUME NEW r, NEW c, NEW i
        PROVE  AP!CheckPassword(r, c, i) <=> A!CheckPassword(r, c, i)
    BY DEF AP!CheckPassword, A!CheckPassword, AP!Await, A!Await, AP!Request, A!Request
  <2>5. ASSUME NEW r
        PROVE  (AP!Execute(r) <=> A!Execute(r)) /\ (AP!Abort(r) <=> A!Abort(r))
    BY DEF AP!Execute, A!Execute, AP!Abort, A!Abort
  <2> QED BY <2>1, <2>2, <2>3, <2>4, <2>5 DEF AP!Manage, A!Manage
<1>5. AP!TypeOK <=> A!TypeOK
  BY DEF AP!TypeOK, A!TypeOK, AP!admins, A!admins
<1>6. AP!LastAdminKept <=> A!LastAdminKept
  BY DEF AP!LastAdminKept, A!LastAdminKept, AP!AtLeastOneAdmin, A!AtLeastOneAdmin,
         AP!admins, A!admins
<1>7. AP!OldPasswordIsOwn <=> A!OldPasswordIsOwn
  BY DEF AP!OldPasswordIsOwn, A!OldPasswordIsOwn, AP!admins, A!admins
<1> QED BY <1>1, <1>2, <1>3, <1>4, <1>5, <1>6, <1>7

\* The same for Registration.
LEMMA SameRegistration ==
  /\ RP!TokensAssumption <=> R!TokensAssumption
  /\ RP!Init <=> R!Init
  /\ \A h : RP!Register(h) <=> R!Register(h)
  /\ \A t : RP!Revoke(t) <=> R!Revoke(t)
  /\ \A t : RP!Expire(t) <=> R!Expire(t)
  /\ RP!TypeOK <=> R!TypeOK
  /\ RP!OneClientPerSingleUse <=> R!OneClientPerSingleUse
  /\ RP!EveryClientCounted <=> R!EveryClientCounted
<1>1. RP!TokensAssumption <=> R!TokensAssumption
  BY SameFiniteSets DEF RP!TokensAssumption, R!TokensAssumption
<1>2. RP!Init <=> R!Init
  BY DEF RP!Init, R!Init, RP!Idle, R!Idle
<1>3. ASSUME NEW h
      PROVE  RP!Register(h) <=> R!Register(h)
  <2>1. ASSUME NEW t
        PROVE  RP!Consume(h, t) <=> R!Consume(h, t)
    BY DEF RP!Consume, R!Consume, RP!Usable, R!Usable, RP!Goto, R!Goto
  <2>2. /\ RP!Validate(h) <=> R!Validate(h)
        /\ RP!CreateApp(h) <=> R!CreateApp(h)
        /\ RP!Fail(h) <=> R!Fail(h)
    BY DEF RP!Validate, R!Validate, RP!CreateApp, R!CreateApp, RP!Fail, R!Fail,
           RP!Goto, R!Goto, RP!Answer, R!Answer, RP!Idle, R!Idle
  <2> QED BY <2>1, <2>2 DEF RP!Register, R!Register
<1>4. \A t : (RP!Revoke(t) <=> R!Revoke(t)) /\ (RP!Expire(t) <=> R!Expire(t))
  BY DEF RP!Revoke, R!Revoke, RP!Expire, R!Expire
<1>5. RP!TypeOK <=> R!TypeOK
  BY DEF RP!TypeOK, R!TypeOK, RP!Row, R!Row, RP!Handler, R!Handler
<1>6. ASSUME NEW t
      PROVE  RP!Credit(t) = R!Credit(t)
  BY SameFiniteSets DEF RP!Credit, R!Credit, RP!Holding, R!Holding
<1>7. /\ RP!OneClientPerSingleUse <=> R!OneClientPerSingleUse
      /\ RP!EveryClientCounted <=> R!EveryClientCounted
  BY <1>6 DEF RP!OneClientPerSingleUse, R!OneClientPerSingleUse,
              RP!EveryClientCounted, R!EveryClientCounted
<1> QED BY <1>1, <1>2, <1>3, <1>4, <1>5, <1>7

\* What RevocationStopsUse says of a step.
LEMMA SameNoNewUse ==
  RP!NoNewUse <=> \A t \in Tokens : row[t].revoked => R!Credit(t)' <= R!Credit(t)
<1>1. ASSUME NEW t PROVE RP!Credit(t) = R!Credit(t)
  BY SameFiniteSets DEF RP!Credit, R!Credit, RP!Holding, R!Holding
<1>2. ASSUME NEW t PROVE RP!Credit(t)' = R!Credit(t)'
  BY SameFiniteSets DEF RP!Credit, R!Credit, RP!Holding, R!Holding
<1> QED BY <1>1, <1>2 DEF RP!NoNewUse

(***************************************************************************)
(* The induction.                                                          *)
(***************************************************************************)
LEMMA Assumptions == AP!IdsAssumption /\ RP!TokensAssumption
BY SameAdmins, SameRegistration, AdminsAssumption, RegistrationAssumption

\* Both parts begin in their invariants.
LEMMA InitBackOffice == Init => BackOfficeInv
BY Assumptions, SameAdmins, SameRegistration, AP!InitAdmins, RP!InitRegistration
   DEF Init, BackOfficeInv

\* A step moves one part and leaves the other as it is.
LEMMA StepBackOffice ==
  ASSUME BackOfficeInv, [Next]_vars
  PROVE  BackOfficeInv' /\ RP!NoNewUse
<1> USE Assumptions DEF BackOfficeInv
<1>1. ASSUME UNCHANGED adminVars
      PROVE  AP!AdminsInv'
  BY <1>1, AP!StillAdmins DEF adminVars, AP!vars
<1>2. ASSUME UNCHANGED tokenVars
      PROVE  RP!RegistrationInv' /\ RP!NoNewUse
  BY <1>2, RP!StillRegistration DEF tokenVars, RP!vars
<1>3. CASE Administer
  <2>1. AP!AdminsInv'
    BY <1>3, SameAdmins, AP!SessionAdmins, AP!ManageAdmins DEF Administer
  <2> QED BY <1>2, <1>3, <2>1 DEF Administer
<1>4. CASE Registrations
  <2>1. RP!RegistrationInv' /\ RP!NoNewUse
    <3>1. ASSUME NEW h \in Handlers, R!Register(h)
          PROVE  RP!RegistrationInv' /\ RP!NoNewUse
      BY <3>1, SameRegistration, RP!RegisterRegistration
    <3>2. ASSUME NEW t \in Tokens, RevokeToken(t) \/ R!Expire(t)
          PROVE  RP!RegistrationInv' /\ RP!NoNewUse
      BY <3>2, SameRegistration, RP!TokenRegistration DEF RevokeToken
    <3> QED BY <1>4, <3>1, <3>2 DEF Registrations
  <2> QED BY <1>1, <1>4, <2>1 DEF Registrations
<1>5. CASE UNCHANGED vars
  BY <1>5, <1>1, <1>2 DEF vars
<1> QED BY <1>3, <1>4, <1>5 DEF Next

\* Both inductive invariants always hold.
LEMMA BackOfficeAlways == Spec => []BackOfficeInv
<1>1. BackOfficeInv /\ [Next]_vars => BackOfficeInv'
  BY StepBackOffice
<1> QED BY <1>1, InitBackOffice, PTL DEF Spec

(***************************************************************************)
(* What follows.                                                           *)
(***************************************************************************)
\* Type correctness of the administrators' tables and cookies and of the
\* registration tokens, in every state the routes can reach.
THEOREM BackOfficeTypeCorrect == Spec => []TypeOK
<1>1. BackOfficeInv => TypeOK
  BY Assumptions, AP!AdminsInvImplies, RP!RegistrationInvImplies, SameAdmins, SameRegistration
     DEF BackOfficeInv, TypeOK
<1> QED BY <1>1, BackOfficeAlways, PTL

\* Only two deletions that both passed the count can leave the back office
\* without an administrator (adminWeb.ts:640); AdminsRace shows that they do.
THEOREM LastAdminStays == Spec => []LastAdminKept
<1>1. BackOfficeInv => LastAdminKept
  BY Assumptions, AP!AdminsInvImplies, SameAdmins DEF BackOfficeInv, LastAdminKept
<1> QED BY <1>1, BackOfficeAlways, PTL

\* An administrator's own password is changed with the own old one, unless a
\* rename went behind the cookie's back (adminWeb.ts:556, 568).
THEOREM OldPasswordStaysOwn == Spec => []OldPasswordIsOwn
<1>1. BackOfficeInv => OldPasswordIsOwn
  BY Assumptions, AP!AdminsInvImplies, SameAdmins DEF BackOfficeInv, OldPasswordIsOwn
<1> QED BY <1>1, BackOfficeAlways, PTL

\* A single-use token makes one client however many handlers race for it
\* (security.token-toctou.test.ts): the single UPDATE of consumeSingleUse.
THEOREM SingleUseMakesOneClient == Spec => []OneClientPerSingleUse
<1>1. BackOfficeInv => OneClientPerSingleUse
  BY Assumptions, RP!RegistrationInvImplies, SameRegistration
     DEF BackOfficeInv, OneClientPerSingleUse
<1> QED BY <1>1, BackOfficeAlways, PTL

\* Every client is covered by a counted use of the token it was created from.
THEOREM ClientsAreCounted == Spec => []EveryClientCounted
<1>1. BackOfficeInv => EveryClientCounted
  BY Assumptions, RP!RegistrationInvImplies, SameRegistration
     DEF BackOfficeInv, EveryClientCounted
<1> QED BY <1>1, BackOfficeAlways, PTL

\* After a token is revoked no handler starts on it (tokenRepo.ts, revoke).
THEOREM RevokedStartsNothing == Spec => RevocationStopsUse
<1>1. BackOfficeInv /\ [Next]_vars => [RP!NoNewUse]_(R!vars)
  BY StepBackOffice
<1>2. [RP!NoNewUse]_(R!vars) =>
        [\A t \in Tokens : row[t].revoked => R!Credit(t)' <= R!Credit(t)]_(R!vars)
  BY SameNoNewUse
<1> QED BY <1>1, <1>2, BackOfficeAlways, PTL DEF Spec, RevocationStopsUse, R!RevocationStopsUse
=============================================================================
