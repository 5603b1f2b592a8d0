------------------------------ MODULE BackOffice ------------------------------
(***************************************************************************)
(* The administrators (Admins) beside the registration tokens they manage  *)
(* (Registration): every /admin-api route is behind requireAdminSession,   *)
(* POST /register behind nothing but the token.                            *)
(***************************************************************************)
EXTENDS Naturals, FiniteSets

CONSTANTS None,
          Ids, Names, Requests,                          \* of Admins
          Tokens, SingleUse, Handlers, MaxUses, CanFail, \* of Registration
          Moves  \* bound: which of the two is worked on, "admins" or "tokens"

VARIABLES name, unused, cookies, req, raced, renamed,  \* Admins
          row, expired, reg, clients,                  \* Registration
          moves                                        \* one of Moves

A == INSTANCE Admins
R == INSTANCE Registration

ASSUME AdminsAssumption == A!IdsAssumption
ASSUME RegistrationAssumption == R!TokensAssumption /\ R!BoundAssumption

adminVars == <<name, unused, cookies, req, raced, renamed>>
tokenVars == <<row, expired, reg, clients>>
vars == <<adminVars, tokenVars, moves>>

Init == A!Init /\ R!Init /\ moves \in Moves

\* requireAdminSession: any cookie that is still valid will do.
RevokeToken(t) == cookies # {} /\ R!Revoke(t)

Administer ==
  /\ A!Session \/ (moves = "admins" /\ A!Manage)
  /\ UNCHANGED <<tokenVars, moves>>

Registrations ==
  /\ moves = "tokens"
  /\ \/ \E h \in Handlers : R!Register(h)
     \/ \E t \in Tokens : RevokeToken(t) \/ R!Expire(t)
  /\ UNCHANGED <<adminVars, moves>>

Next == Administer \/ Registrations

Spec == Init /\ [][Next]_vars

(***************************************************************************)
(* Properties: those of the parts.                                         *)
(***************************************************************************)
TypeOK == A!TypeOK /\ R!TypeOK
AtLeastOneAdmin == A!AtLeastOneAdmin
LastAdminKept == A!LastAdminKept
OldPasswordIsOwn == A!OldPasswordIsOwn
OneClientPerSingleUse == R!OneClientPerSingleUse
EveryClientCounted == R!EveryClientCounted
RevocationStopsUse == R!RevocationStopsUse
=============================================================================
