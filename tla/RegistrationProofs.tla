-------------------------- MODULE RegistrationProofs --------------------------
(***************************************************************************)
(* What Registration promises, for any tokens and any number of handlers.  *)
(*                                                                         *)
(* A token's credit is the clients it has made plus the handlers that hold *)
(* it and may still make one; only consumeSingleUse adds to it, and in the *)
(* same statement to use_count.                                            *)
(***************************************************************************)
EXTENDS Registration, FiniteSetTheorems, TLAPS

IdleHoldsNothing == \A h \in Handlers : reg[h].at = "idle" => reg[h].token = None

UsedOnce ==
  \A t \in SingleUse : row[t].useCount = IF row[t].used THEN 1 ELSE 0

RegistrationInv ==
  /\ TypeOK
  /\ IdleHoldsNothing
  /\ UsedOnce
  /\ EveryClientCounted

\* The handlers that hold a token can be counted.
LEMMA HoldingFinite ==
  ASSUME TokensAssumption, NEW t
  PROVE  IsFiniteSet(Holding(t)) /\ Cardinality(Holding(t)) \in Nat
BY FS_Subset, FS_CardinalityType DEF TokensAssumption, Holding

\* One handler moves.
LEMMA Moved ==
  ASSUME TokensAssumption, TypeOK, NEW h \in Handlers, NEW pc, NEW x,
         reg' = [reg EXCEPT ![h] = [at |-> pc, token |-> x]],
         NEW t
  PROVE  /\ x = t => Holding(t)' = Holding(t) \cup {h}
         /\ x # t => Holding(t)' = Holding(t) \ {h}
<1>1. reg'[h].token = x /\ \A g \in Handlers \ {h} : reg'[g] = reg[g]
  BY DEF TypeOK
<1> QED BY <1>1 DEF Holding

\* Tokens are unused and handlers idle.
LEMMA InitRegistration == TokensAssumption /\ Init => RegistrationInv
<1> SUFFICES ASSUME TokensAssumption, Init PROVE RegistrationInv
  OBVIOUS
<1>1. TypeOK
  BY DEF Init, TypeOK, Row, Handler, Idle
<1>2. \A t \in Tokens : Holding(t) = {}
  BY DEF Init, Idle, Holding, TokensAssumption
<1>3. EveryClientCounted
  <2>1. \A t \in Tokens : clients[t] = 0 /\ row[t].useCount = 0
    BY DEF Init
  <2>2. \A t \in Tokens : Credit(t) = 0
    BY <1>2, <2>1, FS_EmptySet DEF Credit
  <2> QED BY <2>1, <2>2 DEF EveryClientCounted
<1>4. IdleHoldsNothing
  BY DEF Init, Idle, IdleHoldsNothing
<1>5. UsedOnce
  <2>1. \A t \in SingleUse : row[t].useCount = 0 /\ row[t].used = FALSE
    BY DEF Init, TokensAssumption
  <2> QED BY <2>1 DEF UsedOnce
<1> QED BY <1>1, <1>3, <1>4, <1>5 DEF RegistrationInv

(***************************************************************************)
(* The steps of a handler.  Each lemma also gives what a token that has    *)
(* been revoked is left with.                                              *)
(***************************************************************************)
NoNewUse == \A t \in Tokens : row[t].revoked => Credit(t)' <= Credit(t)

\* The single UPDATE of consumeSingleUse turns a use into a handler's claim.
LEMMA ConsumeRegistration ==
  ASSUME TokensAssumption, RegistrationInv,
         NEW h \in Handlers, NEW u \in Tokens, Consume(h, u)
  PROVE  RegistrationInv' /\ NoNewUse
<1> USE DEF RegistrationInv
<1>1. /\ row'[u] = [revoked |-> row[u].revoked,
                    used |-> (u \in SingleUse) \/ row[u].used,
                    useCount |-> row[u].useCount + 1]
      /\ \A t \in Tokens \ {u} : row'[t] = row[t]
  BY DEF Consume, TypeOK
<1>2. TypeOK'
  <2>1. row[u].revoked \in BOOLEAN /\ row[u].used \in BOOLEAN /\ row[u].useCount \in Nat
    BY DEF TypeOK, Row
  <2>2. [revoked |-> row[u].revoked, used |-> (u \in SingleUse) \/ row[u].used,
         useCount |-> row[u].useCount + 1] \in Row
    BY <2>1 DEF Row
  <2>3. row' \in [Tokens -> Row]
    BY <2>2 DEF Consume, TypeOK
  <2>4. reg' \in [Handlers -> Handler]
    BY DEF Consume, Goto, TypeOK, Handler
  <2> QED BY <2>3, <2>4 DEF Consume, TypeOK
<1>3. IdleHoldsNothing'
  BY DEF Consume, Goto, IdleHoldsNothing, TypeOK
<1>4. UsedOnce'
  <2> SUFFICES ASSUME NEW t \in SingleUse
               PROVE  row'[t].useCount = IF row'[t].used THEN 1 ELSE 0
    BY DEF UsedOnce
  <2>1. CASE t # u
    BY <2>1, <1>1 DEF UsedOnce, TokensAssumption
  <2>2. CASE t = u
    <3>1. row[u].useCount = 0
      BY <2>2 DEF Consume, Usable, UsedOnce
    <3>2. row'[u].useCount = 1
      BY <3>1, <1>1
    <3>3. row'[u].used = ((u \in SingleUse) \/ row[u].used)
      BY <1>1
    <3>4. row'[u].used
      BY <2>2, <3>3
    <3> QED BY <2>2, <3>2, <3>4
  <2> QED BY <2>1, <2>2
<1>5. \A t \in Tokens : h \notin Holding(t)
  BY DEF Consume, IdleHoldsNothing, Holding, TokensAssumption
<1>6. \A t \in Tokens \ {u} : Credit(t)' = Credit(t)
  <2> SUFFICES ASSUME NEW t \in Tokens \ {u} PROVE Holding(t)' = Holding(t)
    BY DEF Consume, Credit
  <2>1. Holding(t)' = Holding(t) \ {h}
    BY Moved DEF Consume, Goto
  <2> QED BY <1>5, <2>1
<1>7. Credit(u)' = Credit(u) + 1
  <2>1. Holding(u)' = Holding(u) \cup {h}
    BY Moved DEF Consume, Goto
  <2>2. Cardinality(Holding(u)') = Cardinality(Holding(u)) + 1
    BY <2>1, <1>5, HoldingFinite, FS_AddElement
  <2> QED BY <2>2, HoldingFinite DEF Consume, Credit, TypeOK
<1>8. EveryClientCounted'
  <2> SUFFICES ASSUME NEW t \in Tokens PROVE (Credit(t) <= row[t].useCount)'
    BY DEF EveryClientCounted
  <2>1. row[t].useCount \in Nat /\ Credit(t) \in Nat /\ Credit(t) <= row[t].useCount
    BY HoldingFinite DEF EveryClientCounted, TypeOK, Row, Credit
  <2> QED BY <1>1, <1>6, <1>7, <2>1
<1>9. NoNewUse
  <2> SUFFICES ASSUME NEW t \in Tokens, row[t].revoked PROVE Credit(t)' <= Credit(t)
    BY DEF NoNewUse
  <2>1. t # u
    BY DEF Consume, Usable
  <2> QED BY <1>6, <2>1, HoldingFinite DEF Credit, TypeOK
<1> QED BY <1>2, <1>3, <1>4, <1>8, <1>9

\* Whatever else a handler does, it keeps what it holds or lets go of it.
LEMMA LetGo ==
  ASSUME TokensAssumption, RegistrationInv, NEW h \in Handlers, Answer(h),
         NEW t \in Tokens
  PROVE  /\ Holding(t)' = Holding(t) \ {h}
         /\ h \notin Holding(t) => Cardinality(Holding(t)') = Cardinality(Holding(t))
         /\ h \in Holding(t) => Cardinality(Holding(t)') = Cardinality(Holding(t)) - 1
<1>1. Holding(t)' = Holding(t) \ {h}
  BY Moved DEF Answer, Idle, RegistrationInv, TokensAssumption
<1>2. h \notin Holding(t) => Holding(t)' = Holding(t)
  BY <1>1
<1>3. h \in Holding(t) => Cardinality(Holding(t)') = Cardinality(Holding(t)) - 1
  BY <1>1, HoldingFinite, FS_RemoveElement
<1> QED BY <1>1, <1>2, <1>3

\* A handler that answers gives up its claim.
LEMMA AnswerRegistration ==
  ASSUME TokensAssumption, RegistrationInv, NEW h \in Handlers,
         Answer(h), UNCHANGED <<row, expired, clients>>
  PROVE  RegistrationInv' /\ NoNewUse
<1> USE DEF RegistrationInv
<1>1. \A t \in Tokens : Credit(t)' <= Credit(t) /\ Credit(t)' \in Nat /\ Credit(t) \in Nat
  <2> SUFFICES ASSUME NEW t \in Tokens
               PROVE  Credit(t)' <= Credit(t) /\ Credit(t)' \in Nat /\ Credit(t) \in Nat
    OBVIOUS
  <2>1. Cardinality(Holding(t)) \in Nat /\ Cardinality(Holding(t)') \in Nat
    BY HoldingFinite, LetGo, FS_Subset, FS_CardinalityType
  <2> QED BY <2>1, LetGo DEF Credit, TypeOK
<1>2. TypeOK'
  BY DEF Answer, Idle, TypeOK, Handler
<1>3. IdleHoldsNothing'
  BY DEF Answer, Idle, IdleHoldsNothing, TypeOK
<1>4. UsedOnce'
  BY DEF UsedOnce
<1>5. EveryClientCounted'
  <2> SUFFICES ASSUME NEW t \in Tokens PROVE Credit(t)' <= row[t].useCount
    BY DEF EveryClientCounted
  <2>1. Credit(t) <= row[t].useCount /\ row[t].useCount \in Nat
    BY DEF EveryClientCounted, TypeOK, Row
  <2> QED BY <1>1, <2>1
<1> QED BY <1>1, <1>2, <1>3, <1>4, <1>5 DEF NoNewUse

\* Nothing of the registration changes.
LEMMA StillRegistration ==
  ASSUME TokensAssumption, RegistrationInv, UNCHANGED vars
  PROVE  RegistrationInv' /\ NoNewUse
<1>1. \A t : Holding(t)' = Holding(t)
  BY DEF vars, Holding
<1>2. \A t \in Tokens : Credit(t)' = Credit(t) /\ Credit(t) \in Nat
  BY <1>1, HoldingFinite DEF vars, Credit, RegistrationInv, TypeOK
<1> QED
  BY <1>2 DEF vars, RegistrationInv, TypeOK, IdleHoldsNothing, UsedOnce,
              EveryClientCounted, NoNewUse

\* Refused metadata give up the claim, accepted ones keep it.
LEMMA ValidateRegistration ==
  ASSUME TokensAssumption, RegistrationInv, NEW h \in Handlers, Validate(h)
  PROVE  RegistrationInv' /\ NoNewUse
<1>1. CASE Answer(h)
  BY <1>1, AnswerRegistration DEF Validate
<1>2. CASE Goto(h, "insert", reg[h].token)
  <2>1. \A t : Holding(t)' = Holding(t)
    <3> SUFFICES ASSUME NEW t PROVE Holding(t)' = Holding(t)
      OBVIOUS
    <3> QED BY <1>2, Moved DEF Goto, Holding, RegistrationInv
  <2>2. TypeOK'
    BY <1>2 DEF Validate, Goto, RegistrationInv, TypeOK, Handler
  <2>3. IdleHoldsNothing'
    BY <1>2 DEF Validate, Goto, RegistrationInv, IdleHoldsNothing, TypeOK
  <2>4. \A t \in Tokens : Credit(t)' = Credit(t) /\ Credit(t) \in Nat
    BY <2>1, HoldingFinite DEF Validate, Credit, RegistrationInv, TypeOK
  <2> QED
    BY <2>2, <2>3, <2>4 DEF Validate, RegistrationInv, UsedOnce, EveryClientCounted, NoNewUse
<1> QED BY <1>1, <1>2 DEF Validate

\* The INSERT turns the claim into a client.
LEMMA CreateAppRegistration ==
  ASSUME TokensAssumption, RegistrationInv, NEW h \in Handlers, CreateApp(h)
  PROVE  RegistrationInv' /\ NoNewUse
<1> USE DEF RegistrationInv
<1>1. TypeOK'
  <2>1. reg' \in [Handlers -> Handler]
    BY DEF CreateApp, Answer, Idle, TypeOK, Handler
  <2>2. clients' \in [Tokens -> Nat]
    <3>1. clients' = [clients EXCEPT ![reg[h].token] = clients[reg[h].token] + 1]
      BY DEF CreateApp
    <3>2. clients \in [Tokens -> Nat]
      BY DEF TypeOK
    <3>3. CASE reg[h].token \in Tokens
      BY <3>1, <3>2, <3>3
    <3>4. CASE reg[h].token \notin Tokens
      BY <3>1, <3>2, <3>4
    <3> QED BY <3>3, <3>4
  <2> QED BY <2>1, <2>2 DEF CreateApp, TypeOK
<1>2. \A t \in Tokens : Credit(t)' <= Credit(t) /\ Credit(t)' \in Nat /\ Credit(t) \in Nat
  <2> SUFFICES ASSUME NEW t \in Tokens
               PROVE  Credit(t)' <= Credit(t) /\ Credit(t)' \in Nat /\ Credit(t) \in Nat
    OBVIOUS
  <2>1. Cardinality(Holding(t)) \in Nat /\ Cardinality(Holding(t)') \in Nat
    BY HoldingFinite, LetGo, FS_Subset, FS_CardinalityType DEF CreateApp
  <2>2. CASE reg[h].token = t
    <3>1. h \in Holding(t)
      BY <2>2 DEF Holding
    <3>2. clients'[t] = clients[t] + 1
      BY <2>2 DEF CreateApp, TypeOK
    <3> QED BY <2>1, <3>1, <3>2, LetGo DEF CreateApp, Credit, TypeOK
  <2>3. CASE reg[h].token # t
    <3>1. h \notin Holding(t)
      BY <2>3 DEF Holding
    <3>2. clients'[t] = clients[t]
      BY <2>3 DEF CreateApp, TypeOK
    <3> QED BY <2>1, <3>1, <3>2, LetGo DEF CreateApp, Credit, TypeOK
  <2> QED BY <2>2, <2>3
<1>3. IdleHoldsNothing'
  BY DEF CreateApp, Answer, Idle, IdleHoldsNothing, TypeOK
<1>4. UsedOnce'
  BY DEF CreateApp, UsedOnce
<1>5. EveryClientCounted'
  <2> SUFFICES ASSUME NEW t \in Tokens PROVE Credit(t)' <= row[t].useCount
    BY DEF CreateApp, EveryClientCounted
  <2>1. Credit(t) <= row[t].useCount /\ row[t].useCount \in Nat
    BY DEF EveryClientCounted, TypeOK, Row
  <2> QED BY <1>2, <2>1
<1> QED BY <1>1, <1>2, <1>3, <1>4, <1>5 DEF NoNewUse

\* Every step of POST /register.
LEMMA RegisterRegistration ==
  ASSUME TokensAssumption, RegistrationInv, NEW h \in Handlers, Register(h)
  PROVE  RegistrationInv' /\ NoNewUse
BY ConsumeRegistration, ValidateRegistration, CreateAppRegistration, AnswerRegistration
   DEF Register, Fail

\* An admin revokes a token, or it expires: no handler moves.
LEMMA TokenRegistration ==
  ASSUME TokensAssumption, RegistrationInv, NEW u \in Tokens, Revoke(u) \/ Expire(u)
  PROVE  RegistrationInv' /\ NoNewUse
<1> USE DEF RegistrationInv
<1>1. \A t \in Tokens : Credit(t)' = Credit(t) /\ Credit(t) \in Nat
  <2>1. \A t : Holding(t)' = Holding(t)
    BY DEF Revoke, Expire, Holding
  <2> QED BY <2>1, HoldingFinite DEF Revoke, Expire, Credit, TypeOK
<1>2. /\ row' \in [Tokens -> Row]
      /\ \A t \in Tokens : row'[t].used = row[t].used /\ row'[t].useCount = row[t].useCount
  <2>1. CASE Expire(u)
    BY <2>1 DEF Expire, TypeOK
  <2>2. CASE Revoke(u)
    BY <2>2 DEF Revoke, TypeOK, Row
  <2> QED BY <2>1, <2>2
<1>3. TypeOK'
  BY <1>2 DEF Revoke, Expire, TypeOK
<1>4. IdleHoldsNothing' /\ UsedOnce'
  BY <1>2 DEF Revoke, Expire, IdleHoldsNothing, UsedOnce, TokensAssumption
<1>5. EveryClientCounted'
  BY <1>1, <1>2 DEF EveryClientCounted
<1> QED BY <1>1, <1>3, <1>4, <1>5 DEF NoNewUse

\* The invariants the runs check follow.
LEMMA RegistrationInvImplies ==
  ASSUME TokensAssumption, RegistrationInv
  PROVE  TypeOK /\ OneClientPerSingleUse /\ EveryClientCounted
<1> SUFFICES ASSUME NEW t \in SingleUse PROVE Credit(t) <= 1
  BY DEF RegistrationInv, OneClientPerSingleUse
<1>1. t \in Tokens
  BY DEF TokensAssumption
<1>2. Credit(t) \in Nat /\ Credit(t) <= row[t].useCount
  BY <1>1, HoldingFinite DEF RegistrationInv, TypeOK, Credit, EveryClientCounted
<1>3. row[t].useCount \in {0, 1}
  BY DEF RegistrationInv, UsedOnce
<1> QED BY <1>2, <1>3
=============================================================================
