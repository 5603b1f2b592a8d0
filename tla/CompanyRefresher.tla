--------------------------- MODULE CompanyRefresher ---------------------------
(***************************************************************************)
(* The company token pair of ONE session, and the handlers of all server   *)
(* instances that call ensureFresh for it (companyTokenRefresher.ts): the  *)
(* pair in Postgres, its copy in the session cache, the Redis lock, and    *)
(* the company application, whose refresh tokens work once                 *)
(* (company-mock/src/tokenStore.ts).                                       *)
(*                                                                         *)
(* Pairs are numbered in the order the company issues them: it accepts     *)
(* only the refresh token of the last one.  needsRefresh(pair) is read off *)
(* `aged', the number of pairs whose access token has less than            *)
(* REFRESH_AHEAD_MS to live: older pairs age before younger ones.          *)
(***************************************************************************)
EXTENDS Naturals

CONSTANTS Procs,     \* request handlers in progress at once
          None,      \* no cached copy
          MaxPair,   \* bound: the company issues pairs 0 .. MaxPair
          MaxFails   \* bound: statements and calls that fail, processes that die

ASSUME MaxPairAssumption == MaxPair \in Nat /\ None \notin Nat
ASSUME MaxFailsAssumption == MaxFails \in Nat

VARIABLES
  pg,      \* sessions.company_*: the pair in the row
  cache,   \* the pair in session:<sid>
  locked,  \* whether refresh-lock:<sid> exists
  live,    \* the pair the company issued last
  alive,   \* whether the company still honours it (revokeByUser, expiry)
  aged,    \* pairs below this number need a refresh
  lost,    \* history: the company rotated and no row will ever say so
  overrun, \* history: the lock ran out under a handler that held it
  fails,   \* failures so far
  proc     \* the handlers

vars == <<pg, cache, locked, live, alive, aged, lost, overrun, fails, proc>>

PCs == {"idle", "get", "select", "fill", "lock", "call", "update", "forget", "unlock", "wait"}

\* A handler: where, whether it polls in waitForRefresh, the pair it holds,
\* and whether the company refused it (CompanyAuthError).
Handler == [at : PCs, polling : BOOLEAN, pair : Nat, refused : BOOLEAN]
At(pc, polling, k) == [at |-> pc, polling |-> polling, pair |-> k, refused |-> FALSE]
Idle == At("idle", FALSE, 0)

TypeOK ==
  /\ pg \in Nat
  /\ cache \in Nat \cup {None}
  /\ locked \in BOOLEAN
  /\ live \in Nat
  /\ alive \in BOOLEAN
  /\ aged \in Nat
  /\ lost \in BOOLEAN
  /\ overrun \in BOOLEAN
  /\ fails \in Nat
  /\ proc \in [Procs -> Handler]

Init ==
  /\ pg = 0 /\ cache = None
  /\ locked = FALSE
  /\ live = 0 /\ alive = TRUE
  /\ aged = 0 /\ lost = FALSE /\ overrun = FALSE /\ fails = 0
  /\ proc = [p \in Procs |-> Idle]

Become(p, h) == proc' = [proc EXCEPT ![p] = h]
NeedsRefresh(k) == k < aged
Failing == fails < MaxFails /\ fails' = fails + 1
Holders == {p \in Procs : proc[p].at \in {"call", "update", "forget", "unlock"}}

(***************************************************************************)
(* findSessionBySessionId, and what its caller does with the pair.         *)
(***************************************************************************)
EnsureFresh(p) ==
  /\ proc[p].at = "idle"
  /\ Become(p, At("get", FALSE, 0))
  /\ UNCHANGED <<pg, cache, locked, live, alive, aged, lost, overrun, fails>>

\* Still valid: return it.  Else try the lock, or keep on waiting for it.
Decide(p, k) ==
  \/ ~NeedsRefresh(k) /\ Become(p, Idle)
  \/ NeedsRefresh(k) /\ ~proc[p].polling /\ Become(p, At("lock", FALSE, k))
  \/ NeedsRefresh(k) /\ proc[p].polling /\ Become(p, At("wait", TRUE, 0))

CacheGet(p) ==
  /\ proc[p].at = "get"
  /\ \/ cache # None /\ Decide(p, cache)
     \/ cache = None /\ Become(p, At("select", proc[p].polling, 0))
  /\ UNCHANGED <<pg, cache, locked, live, alive, aged, lost, overrun, fails>>

\* Mutant: hydrate leaves the company columns out of SessionData.
SelectWithoutPair(p) ==
  /\ proc[p].at = "select"
  /\ Become(p, At("fill", proc[p].polling, None))
  /\ UNCHANGED <<pg, cache, locked, live, alive, aged, lost, overrun, fails>>

Select(p) ==
  /\ proc[p].at = "select"
  /\ Become(p, At("fill", proc[p].polling, pg))
  /\ UNCHANGED <<pg, cache, locked, live, alive, aged, lost, overrun, fails>>

CacheSet(p) ==
  /\ proc[p].at = "fill"
  /\ cache' = proc[p].pair
  /\ Decide(p, proc[p].pair)
  /\ UNCHANGED <<pg, locked, live, alive, aged, lost, overrun, fails>>

(***************************************************************************)
(* The holder of the lock: POST /refresh with the refresh token it read    *)
(* BEFORE it took the lock, UPDATE the row, DEL the copy, DEL the lock.    *)
(***************************************************************************)
\* Mutant: SET without NX.
SetAnyway(p) ==
  /\ proc[p].at = "lock"
  /\ Become(p, At("call", FALSE, proc[p].pair))
  /\ locked' = TRUE
  /\ UNCHANGED <<pg, cache, live, alive, aged, lost, overrun, fails>>

SetNX(p) ==
  /\ proc[p].at = "lock"
  /\ \/ ~locked /\ Become(p, At("call", FALSE, proc[p].pair))
     \/ locked /\ Become(p, At("wait", TRUE, 0))
  /\ locked' = TRUE
  /\ UNCHANGED <<pg, cache, live, alive, aged, lost, overrun, fails>>

\* The company rotates: the old pair dies, the new one is in the answer.
Rotated(p) ==
  /\ proc[p].at = "call" /\ alive /\ proc[p].pair = live
  /\ live' = live + 1
  /\ \/ Become(p, At("update", FALSE, live')) /\ UNCHANGED <<lost, fails>>
     \/ Failing /\ Become(p, At("unlock", FALSE, 0)) /\ lost' = TRUE  \* answer lost
  /\ UNCHANGED <<pg, cache, locked, alive, aged, overrun>>

\* 401, or any other status that is not 2xx: CompanyAuthError, which the
\* gateway turns into "please re-login".
Refused(p) ==
  /\ proc[p].at = "call"
  /\ \/ (~alive \/ proc[p].pair # live) /\ fails' = fails
     \/ Failing
  /\ Become(p, [at |-> "unlock", polling |-> FALSE, pair |-> 0, refused |-> TRUE])
  /\ UNCHANGED <<pg, cache, locked, live, alive, aged, lost, overrun>>
\* Mutant: only the cached copy is forgotten, the row is not written.
UpdateNothing(p) ==
  /\ proc[p].at = "update"
  /\ Become(p, At("forget", FALSE, 0))
  /\ UNCHANGED <<pg, cache, locked, live, alive, aged, lost, overrun, fails>>

UpdateCompanyToken(p) ==
  /\ proc[p].at = "update"
  /\ pg' = proc[p].pair
  /\ Become(p, At("forget", FALSE, 0))
  /\ UNCHANGED <<cache, locked, live, alive, aged, lost, overrun, fails>>

CacheInvalidate(p) ==
  /\ proc[p].at = "forget"
  /\ cache' = None
  /\ Become(p, At("unlock", FALSE, 0))
  /\ UNCHANGED <<pg, locked, live, alive, aged, lost, overrun, fails>>

\* finally: DEL refresh-lock, whoever holds it by now.
Unlock(p) ==
  /\ proc[p].at = "unlock"
  /\ locked' = FALSE
  /\ Become(p, Idle)
  /\ UNCHANGED <<pg, cache, live, alive, aged, lost, overrun, fails>>

(***************************************************************************)
(* The others: sleep LOCK_WAIT_INTERVAL_MS, read again, give up after      *)
(* LOCK_WAIT_TIMEOUT_MS.                                                   *)
(***************************************************************************)
WaitForRefresh(p) ==
  /\ proc[p].at = "wait"
  /\ Become(p, At("get", TRUE, 0))
  /\ UNCHANGED <<pg, cache, locked, live, alive, aged, lost, overrun, fails>>
\* Mutant: waitForRefresh without its deadline.
NeverGiveUp(p) ==
  /\ proc[p].at = "wait" /\ FALSE
  /\ UNCHANGED vars

GiveUp(p) ==
  /\ proc[p].at = "wait"
  /\ Become(p, Idle)
  /\ UNCHANGED <<pg, cache, locked, live, alive, aged, lost, overrun, fails>>

(***************************************************************************)
(* The environment.                                                        *)
(***************************************************************************)
\* A call or statement throws inside doRefresh: `finally' still unlocks.
Throw(p) ==
  /\ Failing /\ proc[p].at \in {"call", "update", "forget"}
  /\ Become(p, At("unlock", FALSE, 0))
  /\ lost' = (lost \/ proc[p].at = "update")
  /\ UNCHANGED <<pg, cache, locked, live, alive, aged, overrun>>

\* The process dies, or a statement outside the try block throws.
Crash(p) ==
  /\ Failing /\ proc[p].at # "idle"
  /\ Become(p, Idle)
  /\ lost' = (lost \/ proc[p].at = "update")
  /\ UNCHANGED <<pg, cache, locked, live, alive, aged, overrun>>
\* Mutant: SET NX without EX.
LockForever ==
  /\ locked /\ FALSE
  /\ UNCHANGED vars

\* EX LOCK_TTL_SEC, from the SET on.  The call to the company has no timeout
\* of its own, so the holder may well be at work still.
LockExpire ==
  /\ locked
  /\ locked' = FALSE
  /\ overrun' = (overrun \/ Holders # {})
  /\ UNCHANGED <<pg, cache, live, alive, aged, lost, fails, proc>>

CacheExpire ==
  /\ cache # None
  /\ cache' = None
  /\ UNCHANGED <<pg, locked, live, alive, aged, lost, overrun, fails, proc>>

\* The oldest access token that was still good comes within 30s of its end
\* (bound: the last pair the company may issue does not).
Age ==
  /\ aged <= live /\ aged < MaxPair
  /\ aged' = aged + 1
  /\ UNCHANGED <<pg, cache, locked, live, alive, lost, overrun, fails, proc>>

\* The company revokes the user, or the refresh token itself expires.
CompanyRevoke ==
  /\ alive
  /\ alive' = FALSE
  /\ UNCHANGED <<pg, cache, locked, live, aged, lost, overrun, fails, proc>>

Step(p) ==
  \/ CacheGet(p)
  \/ Select(p)
  \/ CacheSet(p)
  \/ SetNX(p)
  \/ Rotated(p)
  \/ Refused(p)
  \/ UpdateCompanyToken(p)
  \/ CacheInvalidate(p)
  \/ Unlock(p)

Next ==
  \/ \E p \in Procs :
       \/ EnsureFresh(p) \/ Step(p)
       \/ WaitForRefresh(p) \/ GiveUp(p)
       \/ Throw(p) \/ Crash(p)
  \/ LockExpire \/ CacheExpire \/ Age \/ CompanyRevoke

Spec == Init /\ [][Next]_vars

\* Accepted handlers run; the 10s of waitForRefresh run out even though each
\* poll leaves the waiting state; Redis honours its TTLs.
Fairness ==
  /\ \A p \in Procs : WF_vars(Step(p) \/ WaitForRefresh(p)) /\ SF_vars(GiveUp(p))
  /\ WF_vars(LockExpire) /\ WF_vars(CacheExpire)

FairSpec == Spec /\ Fairness

(***************************************************************************)
(* Properties.                                                             *)
(***************************************************************************)
\* The row never falls behind the company unnoticed: it holds the last pair,
\* or a handler is about to write it, or a failure lost it for good.  No
\* interleaving of two refreshers, however late, loses a pair by itself or
\* overwrites a newer one with an older.
PairNeverStranded ==
  \/ pg = live
  \/ lost
  \/ \E p \in Procs : proc[p].at = "update" /\ proc[p].pair = live

\* The header of companyTokenRefresher.ts: of the handlers that find the
\* token due only the one with the lock refreshes, the others wait.
\* More than one does only after a lock ran out under its holder.
SingleFlight == overrun \/ \A p, q \in Holders : p = q

\* Every request ends, with a token or an error, whatever becomes of the
\* holder it is waiting for.
RequestsEnd == \A p \in Procs : proc[p].at # "idle" ~> proc[p].at = "idle"

\* While requests keep coming, a token that is due is eventually renewed,
\* even if a late cache fill put the old pair back after the DEL.
SessionRecovers ==
  (\A p \in Procs : WF_vars(EnsureFresh(p))) =>
    (NeedsRefresh(pg) ~> (~NeedsRefresh(pg) \/ ~alive \/ lost))

\* The header of companyTokenRefresher.ts again: the lock is there so that no
\* refresh token is used a second time; a user is told to log in again only
\* if the company really dropped the user, or something failed, or the lock
\* ran out under its holder.
NoNeedlessRelogin == \A p \in Procs : proc[p].refused => ~alive \/ fails > 0 \/ overrun
=============================================================================
