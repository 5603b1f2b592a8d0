----------------------- MODULE CompanyRefresherProofs -----------------------
(* Theorems about CompanyRefresher, for any number of handlers and pairs. *)
EXTENDS CompanyRefresher, TLAPS

(***************************************************************************)
(* PairNeverStranded is not inductive: nothing in it forbids two handlers  *)
(* that carry a new pair, or a copy newer than the row.  Every pair that   *)
(* is read anywhere is at most the row's, so only a handler that read the  *)
(* row's own pair can make the company rotate, and only once.              *)
(***************************************************************************)
\* What a handler knows of the pairs.
HandlerOK(h) ==
  /\ h.at = "update" => h.pair = live /\ pg < live
  /\ h.at # "update" => h.pair <= pg

Inv ==
  /\ TypeOK
  /\ pg <= live
  /\ cache # None => cache <= pg
  /\ \A p \in Procs : HandlerOK(proc[p])
  /\ \A p, q \in Procs : proc[p].at = "update" /\ proc[q].at = "update" => p = q
  /\ PairNeverStranded

\* A pair fresh from the login, and nobody at work.
LEMMA InitInv == Init => Inv
<1> SUFFICES ASSUME Init PROVE Inv
  OBVIOUS
<1>1. Idle \in Handler /\ Idle.at = "idle" /\ Idle.pair = 0
  BY DEF Idle, At, Handler, PCs
<1>2. TypeOK
  BY <1>1 DEF Init, TypeOK
<1>3. \A p \in Procs : proc[p].at = "idle" /\ proc[p].pair = 0
  BY <1>1 DEF Init
<1>4. pg = 0 /\ live = 0 /\ cache = None
  BY DEF Init
<1> QED
  BY <1>2, <1>3, <1>4 DEF HandlerOK, Inv, PairNeverStranded

\* A step of one handler that leaves the row and the company alone.
LEMMA Moves ==
  ASSUME Inv, NEW p \in Procs,
         proc' = [proc EXCEPT ![p] = proc'[p]], proc'[p] \in Handler,
         proc'[p].at # "update", proc'[p].pair <= pg, proc[p].at # "update",
         UNCHANGED <<pg, live, aged, alive, lost, overrun>>, fails' \in Nat,
         cache' \in Nat \cup {None}, cache' # None => cache' <= pg, locked' \in BOOLEAN
  PROVE  Inv'
<1>1. \A q \in Procs \ {p} : proc'[q] = proc[q]
  BY DEF Inv, TypeOK
<1>2. TypeOK'
  BY DEF Inv, TypeOK
<1>3. \A q \in Procs : HandlerOK(proc[q])'
  BY <1>1 DEF Inv, HandlerOK
<1>4. PairNeverStranded'
  BY <1>1 DEF Inv, PairNeverStranded
<1> QED
  BY <1>1, <1>2, <1>3, <1>4 DEF Inv

\* The same for a handler that touches only the lock, or nothing.
LEMMA Goes ==
  ASSUME Inv, NEW p \in Procs, NEW pc \in PCs, NEW b \in BOOLEAN, NEW k \in Nat,
         Become(p, At(pc, b, k)), pc # "update", k <= pg, proc[p].at # "update",
         UNCHANGED <<pg, live, aged, alive, lost, overrun>>, fails' \in Nat,
         cache' \in Nat \cup {None}, cache' # None => cache' <= pg, locked' \in BOOLEAN
  PROVE  Inv'
<1>1. At(pc, b, k) \in Handler /\ At(pc, b, k).at = pc /\ At(pc, b, k).pair = k
  BY DEF At, Handler
<1>2. proc' = [proc EXCEPT ![p] = proc'[p]] /\ proc'[p] = At(pc, b, k)
  BY DEF Become, Inv, TypeOK
<1> QED
  BY <1>1, <1>2, Moves

\* The copy that stays as it is.
LEMMA Facts == ASSUME Inv, NEW p \in Procs
               PROVE  /\ TypeOK /\ proc[p] \in Handler /\ HandlerOK(proc[p])
                      /\ cache \in Nat \cup {None} /\ locked \in BOOLEAN
                      /\ fails \in Nat /\ (cache # None => cache <= pg)
                      /\ pg \in Nat /\ 0 \in Nat /\ 0 <= pg /\ FALSE \in BOOLEAN /\ TRUE \in BOOLEAN
                      /\ proc[p].polling \in BOOLEAN /\ proc[p].pair \in Nat
                      /\ Idle = At("idle", FALSE, 0)
                      /\ proc[p].at # "update" => proc[p].pair <= pg
  BY DEF Inv, TypeOK, Handler, HandlerOK, Idle

\* Reading the session: whatever the handler decides, it knows no newer pair.
LEMMA DecideInv ==
  ASSUME Inv, NEW p \in Procs, NEW k \in Nat, k <= pg, Decide(p, k), proc[p].at # "update",
         UNCHANGED <<pg, live, aged, alive, lost, overrun, fails, locked>>,
         cache' \in Nat \cup {None}, cache' # None => cache' <= pg
  PROVE  Inv'
<1>1. "idle" \in PCs /\ "lock" \in PCs /\ "wait" \in PCs /\ locked' \in BOOLEAN
  BY Facts DEF PCs
<1>2. CASE Become(p, Idle)
  BY <1>1, <1>2, Facts, Goes
<1>3. CASE Become(p, At("lock", FALSE, k))
  BY <1>1, <1>3, Facts, Goes
<1>4. CASE Become(p, At("wait", TRUE, 0))
  BY <1>1, <1>4, Facts, Goes
<1> QED
  BY <1>2, <1>3, <1>4 DEF Decide

\* A request finds its session.
LEMMA EnsureInv == ASSUME Inv, NEW p \in Procs, EnsureFresh(p) PROVE Inv'
<1>1. "get" \in PCs
  BY DEF PCs
<1> QED
  BY <1>1, Facts, Goes DEF EnsureFresh

\* It reads the cached copy, under the lock or before.
LEMMA CacheGetInv == ASSUME Inv, NEW p \in Procs, CacheGet(p) PROVE Inv'
<1>1. CASE cache # None /\ Decide(p, cache)
  BY <1>1, Facts, DecideInv DEF CacheGet
<1>2. CASE Become(p, At("select", proc[p].polling, 0))
  <2>1. "select" \in PCs
    BY DEF PCs
  <2> QED
    BY <1>2, <2>1, Facts, Goes DEF CacheGet
<1> QED
  BY <1>1, <1>2 DEF CacheGet

\* It reads the row, which holds the last pair unless a failure lost it.
LEMMA SelectInv == ASSUME Inv, NEW p \in Procs, Select(p) PROVE Inv'
<1>0. "fill" \in PCs
  BY DEF PCs
<1>1. pg \in Nat /\ pg <= pg
  BY DEF Inv, TypeOK
<1>2. /\ proc[p].at = "select" /\ Become(p, At("fill", proc[p].polling, pg))
      /\ UNCHANGED <<pg, cache, locked, live, alive, aged, lost, overrun, fails>>
  BY DEF Select
<1> QED
  BY <1>0, <1>1, <1>2, Facts, Goes

\* It stores what it read, however old that is by now.
LEMMA CacheSetInv == ASSUME Inv, NEW p \in Procs, CacheSet(p) PROVE Inv'
<1>1. cache' \in Nat \cup {None} /\ cache' <= pg
  BY Facts DEF CacheSet
<1> QED
  BY <1>1, Facts, DecideInv DEF CacheSet

\* The lock decides who calls; the invariant does not depend on it.
LEMMA SetNXInv == ASSUME Inv, NEW p \in Procs, SetNX(p) PROVE Inv'
<1>1. "call" \in PCs /\ "wait" \in PCs
  BY DEF PCs
<1> QED
  BY <1>1, Facts, Goes DEF SetNX

\* The company refuses a refresh token that was spent.
LEMMA RefusedInv == ASSUME Inv, NEW p \in Procs, Refused(p) PROVE Inv'
<1>1. /\ proc' = [proc EXCEPT ![p] = proc'[p]]
      /\ proc'[p] = [at |-> "unlock", polling |-> FALSE, pair |-> 0, refused |-> TRUE]
  BY DEF Refused, Become, Inv, TypeOK
<1>2. proc'[p] \in Handler /\ proc'[p].at = "unlock" /\ proc'[p].pair = 0
  BY <1>1 DEF Handler, PCs
<1>3. UNCHANGED <<pg, cache, locked, live, alive, aged, lost, overrun>>
      /\ (fails' = fails \/ fails' = fails + 1) /\ fails \in Nat
  BY DEF Refused, Failing, Inv, TypeOK
<1>5. fails' \in Nat
  BY <1>3
<1>4. proc[p].at # "update"
  BY DEF Refused
<1> QED
  BY <1>1, <1>2, <1>3, <1>4, <1>5, Facts, Moves

\* The refresher empties the cache.
LEMMA ForgetInv == ASSUME Inv, NEW p \in Procs, CacheInvalidate(p) PROVE Inv'
<1>1. "unlock" \in PCs
  BY DEF PCs
<1> QED
  BY <1>1, Facts, Goes DEF CacheInvalidate

\* It deletes the lock, whoever holds it.
LEMMA UnlockInv == ASSUME Inv, NEW p \in Procs, Unlock(p) PROVE Inv'
<1>1. "idle" \in PCs
  BY DEF PCs
<1> QED
  BY <1>1, Facts, Goes DEF Unlock

\* Those that found the lock taken poll or give up.
LEMMA WaitInv == ASSUME Inv, NEW p \in Procs, WaitForRefresh(p) \/ GiveUp(p) PROVE Inv'
<1>1. "get" \in PCs /\ "idle" \in PCs
  BY DEF PCs
<1> QED
  BY <1>1, Facts, Goes DEF WaitForRefresh, GiveUp

\* The company rotates only for the pair in the row: nobody else can be
\* between its call and its UPDATE.
LEMMA RotatedInv == ASSUME Inv, NEW p \in Procs, Rotated(p) PROVE Inv'
<1>0. /\ TypeOK /\ pg = live /\ pg \in Nat /\ live' = live + 1
      /\ proc[p].at = "call" /\ UNCHANGED <<pg, cache, locked, alive, aged, overrun>>
      /\ fails \in Nat
  BY DEF Inv, TypeOK, Rotated, HandlerOK
<1>5. fails' \in Nat
  <2>1. fails' = fails \/ fails' = fails + 1
    BY DEF Rotated, Failing
  <2> QED
    BY <1>0, <2>1
<1>1. \A q \in Procs : proc[q].at # "update" /\ proc[q].pair <= pg
  BY <1>0 DEF Inv, HandlerOK
<1>2. CASE Become(p, At("update", FALSE, live')) /\ lost' = lost
  <2>1. At("update", FALSE, live') \in Handler /\ At("update", FALSE, live').at = "update"
        /\ At("update", FALSE, live').pair = live'
    BY <1>0 DEF At, Handler, PCs
  <2>2. /\ proc' \in [Procs -> Handler] /\ \A q \in Procs \ {p} : proc'[q] = proc[q]
        /\ proc'[p].at = "update" /\ proc'[p].pair = live'
    BY <1>0, <1>2, <2>1 DEF TypeOK, Become
  <2>3. \A q \in Procs : HandlerOK(proc[q])'
    BY <1>0, <1>1, <2>2 DEF HandlerOK
  <2>4. \A q, r \in Procs : proc'[q].at = "update" /\ proc'[r].at = "update" => q = r
    BY <1>1, <2>2
  <2>5. PairNeverStranded'
    BY <2>2 DEF PairNeverStranded
  <2> QED
    BY <1>0, <1>2, <1>5, <2>2, <2>3, <2>4, <2>5 DEF Inv, TypeOK
<1>3. CASE Become(p, At("unlock", FALSE, 0)) /\ lost' = TRUE
  <2>1. At("unlock", FALSE, 0) \in Handler /\ At("unlock", FALSE, 0).at = "unlock"
        /\ At("unlock", FALSE, 0).pair = 0
    BY DEF At, Handler, PCs
  <2>2. /\ proc' \in [Procs -> Handler] /\ \A q \in Procs \ {p} : proc'[q] = proc[q]
        /\ proc'[p].at = "unlock" /\ proc'[p].pair = 0
    BY <1>0, <1>3, <2>1 DEF TypeOK, Become
  <2>3. \A q \in Procs : HandlerOK(proc[q])'
    BY <1>0, <1>1, <2>2 DEF HandlerOK
  <2>4. \A q \in Procs : proc'[q].at # "update"
    BY <1>1, <2>2
  <2>5. PairNeverStranded'
    BY <1>3 DEF PairNeverStranded
  <2> QED
    BY <1>0, <1>3, <1>5, <2>2, <2>3, <2>4, <2>5 DEF Inv, TypeOK
<1> QED
  BY <1>2, <1>3 DEF Rotated

\* The row catches up with the company.
LEMMA UpdateInv == ASSUME Inv, NEW p \in Procs, UpdateCompanyToken(p) PROVE Inv'
<1>0. /\ TypeOK /\ proc[p].pair = live /\ pg < live /\ pg' = live /\ live' = live
      /\ live \in Nat /\ pg \in Nat
      /\ proc[p].at = "update"
      /\ UNCHANGED <<cache, locked, live, alive, aged, lost, overrun, fails>>
  BY DEF Inv, TypeOK, UpdateCompanyToken, HandlerOK
<1>1. At("forget", FALSE, 0) \in Handler /\ At("forget", FALSE, 0).at = "forget"
      /\ At("forget", FALSE, 0).pair = 0
  BY DEF At, Handler, PCs
<1>2. /\ proc' \in [Procs -> Handler] /\ \A q \in Procs \ {p} : proc'[q] = proc[q]
      /\ proc'[p].at = "forget" /\ proc'[p].pair = 0
  BY <1>0, <1>1 DEF TypeOK, Become, UpdateCompanyToken
<1>3. \A q \in Procs \ {p} : proc[q].at # "update" /\ proc[q].pair <= pg /\ proc[q].pair \in Nat
  BY <1>0 DEF Inv, HandlerOK, TypeOK, Handler
<1>4. \A q \in Procs : proc'[q].at # "update" /\ proc'[q].pair <= pg'
  BY <1>0, <1>2, <1>3
<1>5. \A q \in Procs : HandlerOK(proc[q])'
  BY <1>4 DEF HandlerOK
<1>6. cache' # None => cache' <= pg'
  BY <1>0 DEF Inv, TypeOK
<1>7. PairNeverStranded'
  BY <1>0 DEF PairNeverStranded
<1> QED
  BY <1>0, <1>2, <1>4, <1>5, <1>6, <1>7 DEF Inv, TypeOK

\* A handler that stops: if it carried a new pair, the pair is lost.
LEMMA StopInv == ASSUME Inv, NEW p \in Procs, Throw(p) \/ Crash(p) PROVE Inv'
<1>0. TypeOK /\ UNCHANGED <<pg, cache, locked, live, alive, aged, overrun>>
      /\ lost' = (lost \/ proc[p].at = "update") /\ fails' = fails + 1
  BY DEF Inv, Throw, Crash, Failing
<1>1. PICK pc \in {"unlock", "idle"} : Become(p, At(pc, FALSE, 0))
  BY DEF Throw, Crash, Idle
<1>2. At(pc, FALSE, 0) \in Handler /\ At(pc, FALSE, 0).at = pc /\ At(pc, FALSE, 0).pair = 0
  BY DEF At, Handler, PCs
<1>3. /\ proc' \in [Procs -> Handler] /\ \A q \in Procs \ {p} : proc'[q] = proc[q]
      /\ proc'[p].at = pc /\ proc'[p].pair = 0
  BY <1>0, <1>1, <1>2 DEF TypeOK, Become
<1>4. \A q \in Procs : HandlerOK(proc[q])'
  BY <1>0, <1>3 DEF Inv, HandlerOK, TypeOK
<1>5. PairNeverStranded'
  BY <1>0, <1>3 DEF Inv, PairNeverStranded
<1>6. \A q, r \in Procs : proc'[q].at = "update" /\ proc'[r].at = "update" => q = r
  BY <1>3 DEF Inv
<1>7. lost' \in BOOLEAN /\ fails' \in Nat
  BY <1>0 DEF TypeOK
<1> QED
  BY <1>0, <1>3, <1>4, <1>5, <1>6, <1>7 DEF Inv, TypeOK

\* Time and the company.
LEMMA WorldInv == ASSUME Inv, LockExpire \/ CacheExpire \/ Age \/ CompanyRevoke PROVE Inv'
<1>1. UNCHANGED <<pg, live, lost, proc>> /\ (cache' = cache \/ cache' = None)
  BY DEF LockExpire, CacheExpire, Age, CompanyRevoke
<1>2. locked' \in BOOLEAN /\ alive' \in BOOLEAN /\ overrun' \in BOOLEAN /\ fails' \in Nat
  BY DEF Inv, TypeOK, LockExpire, CacheExpire, Age, CompanyRevoke
<1>3. aged' \in Nat
  <2>1. CASE Age
    BY <2>1 DEF Inv, TypeOK, Age
  <2> QED
    BY <2>1 DEF Inv, TypeOK, LockExpire, CacheExpire, CompanyRevoke
<1>4. TypeOK'
  BY <1>1, <1>2, <1>3 DEF Inv, TypeOK
<1> QED
  BY <1>1, <1>4 DEF Inv, HandlerOK, PairNeverStranded

\* Every step of a handler or of the world around it.
LEMMA NextInv == Inv /\ [Next]_vars => Inv'
<1> SUFFICES ASSUME Inv, [Next]_vars PROVE Inv'
  OBVIOUS
<1>1. ASSUME NEW p \in Procs, EnsureFresh(p) \/ Step(p) \/ WaitForRefresh(p) \/ GiveUp(p)
                              \/ Throw(p) \/ Crash(p)
      PROVE  Inv'
  BY <1>1, EnsureInv, CacheGetInv, SelectInv, CacheSetInv, SetNXInv, RotatedInv, RefusedInv,
     UpdateInv, ForgetInv, UnlockInv, WaitInv, StopInv DEF Step
<1>2. CASE UNCHANGED vars
  BY <1>2 DEF vars, Inv, TypeOK, HandlerOK, PairNeverStranded
<1> QED
  BY <1>1, <1>2, WorldInv DEF Next

\* The inductive invariant holds, for any handlers and bounds.
THEOREM Invariance == Spec => []Inv
<1> QED
  BY InitInv, NextInv, PTL DEF Spec

\* Every variable keeps its type.
THEOREM RefresherTypes == Spec => []TypeOK
<1>1. Inv => TypeOK
  BY DEF Inv
<1> QED
  BY <1>1, Invariance, PTL

\* Even when the lock runs out under its holder, no pair is lost except by a
\* failure between the answer of the company and the UPDATE of the row.
THEOREM NoPairStranded == Spec => []PairNeverStranded
<1>1. Inv => PairNeverStranded
  BY DEF Inv
<1> QED
  BY <1>1, Invariance, PTL
(***************************************************************************)
(* SingleFlight rests on the TTL alone: until it runs out under a holder   *)
(* the lock is there, so SET NX turns everyone else away.                  *)
(***************************************************************************)
Held == {"call", "update", "forget", "unlock"}

LockInv ==
  /\ proc \in [Procs -> Handler]
  /\ overrun \/ (Holders # {} => locked)
  /\ SingleFlight

\* Nobody holds the lock.
LEMMA InitLock == Init => LockInv
<1> SUFFICES ASSUME Init PROVE LockInv
  OBVIOUS
<1>1. Idle \in Handler /\ Idle.at = "idle"
  BY DEF Idle, At, Handler, PCs
<1> QED
  BY <1>1 DEF Init, LockInv, Holders, SingleFlight

\* A step of p that frees the lock, or takes nobody new into the section.
LEMMA Leaves ==
  ASSUME LockInv, NEW p \in Procs, NEW h \in Handler, Become(p, h), overrun' = overrun,
         \/ proc[p].at \in Held /\ locked' = locked
         \/ proc[p].at \in Held /\ h.at \notin Held
         \/ h.at \notin Held /\ locked' = locked
         \/ h.at \notin Held /\ locked' = TRUE
         \/ ~locked /\ locked' = TRUE
  PROVE  LockInv'
<1>1. /\ proc' \in [Procs -> Handler] /\ proc'[p] = h
      /\ \A q \in Procs \ {p} : proc'[q] = proc[q]
  BY DEF LockInv, Become
<1>2. Holders = {q \in Procs : proc[q].at \in Held}
      /\ Holders' = {q \in Procs : proc'[q].at \in Held}
  BY DEF Holders, Held
<1>3. Holders' \subseteq Holders \cup {p} /\ (h.at \notin Held => Holders' = Holders \ {p})
  BY <1>1, <1>2
<1>4. overrun \/ (proc[p].at \in Held => Holders = {p})
  BY <1>2 DEF LockInv, SingleFlight
<1>5. overrun \/ ~locked => overrun \/ Holders = {}
  BY DEF LockInv
<1> QED
  BY <1>1, <1>3, <1>4, <1>5 DEF LockInv, SingleFlight

\* Every step keeps the lock with its one holder.
LEMMA NextLock == TypeOK /\ TypeOK' /\ LockInv /\ [Next]_vars => LockInv'
<1> SUFFICES ASSUME TypeOK, TypeOK', LockInv, [Next]_vars PROVE LockInv'
  OBVIOUS
<1>1. ASSUME NEW p \in Procs, EnsureFresh(p) \/ Step(p) \/ WaitForRefresh(p) \/ GiveUp(p)
                              \/ Throw(p) \/ Crash(p)
      PROVE  LockInv'
  <2> DEFINE h == proc'[p]
  <2>1. Become(p, h) /\ h \in Handler /\ overrun' = overrun
    <3>1. overrun' = overrun /\ \E g : Become(p, g)
      BY <1>1 DEF EnsureFresh, Step, CacheGet, Decide, Select, CacheSet, SetNX, Rotated, Refused,
           UpdateCompanyToken, CacheInvalidate, Unlock, WaitForRefresh, GiveUp, Throw, Crash
    <3> QED
      BY <3>1 DEF Become, TypeOK
  <2>2. CASE EnsureFresh(p) \/ CacheGet(p) \/ Select(p) \/ CacheSet(p)
    <3>1. h.at \notin Held /\ locked' = locked
      BY <2>1, <2>2 DEF EnsureFresh, CacheGet, Decide, Select, CacheSet, Become, At, Idle, Held, TypeOK
    <3> QED
      BY <2>1, <3>1, Leaves
  <2>3. CASE SetNX(p)
    <3>1. locked' = TRUE /\ (locked => h.at \notin Held)
      BY <2>1, <2>3 DEF SetNX, Become, At, Held, TypeOK
    <3> QED
      BY <2>1, <3>1, Leaves DEF TypeOK
  <2>4. CASE Rotated(p) \/ Refused(p) \/ UpdateCompanyToken(p) \/ CacheInvalidate(p) \/ Throw(p)
    <3>1. proc[p].at \in Held /\ locked' = locked
      BY <2>4 DEF Rotated, Refused, UpdateCompanyToken, CacheInvalidate, Throw, Held
    <3> QED
      BY <2>1, <3>1, Leaves
  <2>5. CASE Unlock(p)
    <3>1. proc[p].at \in Held /\ h.at \notin Held
      BY <2>1, <2>5 DEF Unlock, Become, At, Idle, Held, TypeOK
    <3> QED
      BY <2>1, <3>1, Leaves
  <2>6. CASE WaitForRefresh(p) \/ GiveUp(p) \/ Crash(p)
    <3>1. h.at \notin Held /\ locked' = locked
      BY <2>1, <2>6 DEF WaitForRefresh, GiveUp, Crash, Become, At, Idle, Held, TypeOK
    <3> QED
      BY <2>1, <3>1, Leaves
  <2> QED
    BY <1>1, <2>2, <2>3, <2>4, <2>5, <2>6 DEF Step
<1>2. CASE LockExpire
  BY <1>2 DEF LockExpire, LockInv, Holders, SingleFlight
<1>3. CASE CacheExpire \/ Age \/ CompanyRevoke \/ UNCHANGED vars
  BY <1>3 DEF CacheExpire, Age, CompanyRevoke, vars, LockInv, Holders, SingleFlight
<1> QED
  BY <1>1, <1>2, <1>3 DEF Next

\* Whatever crashes, two handlers refresh at once only after the lock has run
\* out under its holder.
THEOREM OneRefresher == Spec => []SingleFlight
<1>1. LockInv => SingleFlight
  BY DEF LockInv
<1> QED
  BY <1>1, InitLock, NextLock, RefresherTypes, PTL DEF Spec
=============================================================================
