----------------------------- MODULE SigningKeys -----------------------------
(***************************************************************************)
(* The RS256 keys (table signing_keys), from which tokens are signed with  *)
(* a copy of the active key kept in Redis for ten minutes                  *)
(* (repos/signingKeyRepo.ts) and verified with a set of public keys each   *)
(* process keeps for a minute (jwt.ts).  No route rotates keys: an         *)
(* operator inserts the new one and retires the old one.                   *)
(***************************************************************************)
EXTENDS FiniteSets

CONSTANTS Keys,     \* kids
          SeededKey,
          Readers,  \* handlers of this process that may verify at once
          Signers,  \* handlers, of any process, that may sign at once
          None

KeysAssumption == None \notin Keys /\ SeededKey \in Keys

VARIABLES
  status,   \* signing_keys.status by kid, None without a row
  active,   \* Redis: signing:active, a kid
  signer,   \* the kid a signer has selected and not yet cached, or None
  signed,   \* kids of the tokens about
  jwks,     \* jwksCache of this process
  loading   \* the rows listVerifiers has returned to a verifier, not stored yet

redisVars == <<active, signer, signed>>
vars == <<status, redisVars, jwks, loading>>

With(st) == {k \in Keys : status[k] = st}

\* listVerifiers: every key that is not retired.
Verifiers == {k \in Keys : status[k] # None /\ status[k] # "retired"}

C == INSTANCE LocalCopy
       WITH Writers <- {}, table <- Verifiers, copy <- jwks, fill <- loading, writing <- {}

TypeOK ==
  /\ status \in [Keys -> {"active", "retired", None}]
  /\ active \in Keys \cup {None}
  /\ signer \in [Signers -> Keys \cup {None}]
  /\ signed \in SUBSET Keys
  /\ C!TypeOK(SUBSET Keys)

\* seed.ts has generated a key, and tokens have been signed with it.
Init ==
  /\ status = [k \in Keys |-> IF k = SeededKey THEN "active" ELSE None]
  /\ active = None
  /\ signer = [s \in Signers |-> None]
  /\ signed = With("active")
  /\ C!Init

(***************************************************************************)
(* Signing: getActive, then the signature.                                 *)
(***************************************************************************)
Sign(k) == signed' = signed \cup {k}

GetCached(s) ==
  /\ signer[s] = None /\ active # None
  /\ Sign(active)
  /\ UNCHANGED <<status, active, signer, jwks, loading>>

\* A miss: any of the active rows; without one getActive throws.
SelectActive(s) ==
  /\ signer[s] = None /\ active = None
  /\ \E k \in With("active") : signer' = [signer EXCEPT ![s] = k]
  /\ UNCHANGED <<status, active, signed, jwks, loading>>

CacheSetActive(s) ==
  /\ signer[s] # None
  /\ active' = signer[s]
  /\ Sign(signer[s])
  /\ signer' = [signer EXCEPT ![s] = None]
  /\ UNCHANGED <<status, jwks, loading>>

\* Mutant: SET without EX.
ActiveForever == FALSE /\ UNCHANGED vars

\* EX 600.
ActiveExpire ==
  /\ active # None
  /\ active' = None
  /\ UNCHANGED <<status, signer, signed, jwks, loading>>

(***************************************************************************)
(* Verifying: getVerifier.                                                 *)
(***************************************************************************)
ListVerifiers(r) == C!Select(r) /\ UNCHANGED <<status, redisVars>>
StoreVerifiers(r) == C!Store(r) /\ UNCHANGED <<status, redisVars>>
DropVerifiers(r) == C!Drop(r) /\ UNCHANGED <<status, redisVars>>
JwksExpire == C!Expire /\ UNCHANGED <<status, redisVars>>

(***************************************************************************)
(* The operator, as the headers of jwt.ts and signingKeyRepo.ts describe a *)
(* rotation: insert an active key, then mark the old one retired.          *)
(***************************************************************************)
AddKey(k) ==
  /\ status[k] = None
  /\ status' = [status EXCEPT ![k] = "active"]
  /\ C!WriteElsewhere
  /\ UNCHANGED redisVars

Retire(k) ==
  /\ status[k] = "active" /\ With("active") # {k}
  /\ status' = [status EXCEPT ![k] = "retired"]
  /\ C!WriteElsewhere
  /\ UNCHANGED redisVars

(***************************************************************************)
(* Properties.                                                             *)
(***************************************************************************)
\* Nothing is left that could sign with k, or accept what it signed.
Forgotten(k) ==
  /\ active # k /\ \A s \in Signers : signer[s] # k
  /\ jwks # None => k \notin jwks.rows

\* A retired key (keys are alike) goes out of use for good, however old the copies that signers
\* and verifiers were about to store when it was retired: no late SET or
\* assignment brings it back for more than one more TTL.
RetiredKeyForgotten == status[SeededKey] = "retired" ~> []Forgotten(SeededKey)
=============================================================================
