--------------------------- MODULE SessionsProofs ---------------------------
(***************************************************************************)
(* Theorems about Sessions, for every set of sessions, refresh ids,        *)
(* clients and handlers; at the end, that it implements TokenFamily.       *)
(***************************************************************************)
EXTENDS SessionsRefinement, TLAPS

(***************************************************************************)
(* The inductive invariant.  None of the three safety properties is        *)
(* inductive: a handler about to rotate must already have recorded the id  *)
(* it rotates, under the session it was signed for; a handler in the grace *)
(* path holds an id that is past; one that rotated holds a retired id.     *)
(***************************************************************************)
\* The current id of a row was drawn for that row.
RowOwnsCur == \A s \in Sids : row[s] # None => owner[row[s].cur] = s

\* An id is only ever signed for a session that has been inserted.
OwnerHasRow == \A j \in Jtis : owner[j] # None => row[owner[j]] # None

\* An id is recorded only under the session it was signed for.
HistoryOwned == \A j \in Jtis : history[j] # None => history[j] = owner[j]

\* The cached copy of a row, and the tokens the clients hold, come from rows.
CacheOwned == \A s \in Sids : cache[s] # None => owner[cache[s].cur] = s
DeliveredOwned == \A s \in Sids, j \in Jtis : <<s, j>> \in delivered => owner[j] = s

\* Id j was rotated away.
Retired(j) == owner[j] # None /\ row[owner[j]].cur # j

\* Id j cannot be rotated any more.
Past(j) == owner[j] # None /\ (row[owner[j]].revoked \/ row[owner[j]].cur # j)

\* What each await leaves in the local variables of a handler.
HandlerOK(h) ==
  /\ h.at \in {"create_fill", "find_fill", "rotate_fill", "session_fill", "reply"} =>
       h.snap \in Entry /\ h.sid \in Sids /\ owner[h.snap.cur] = h.sid
  /\ h.at = "create_fill" => h.op # "refresh" /\ ~h.snap.revoked
  /\ h.at \in {"find_fill", "record", "rotate"} =>
       h.jti \in Jtis /\ h.sid \in Sids /\ owner[h.jti] = h.sid
  /\ h.at \in {"get", "select", "session_fill"} => h.sid \in Sids
  /\ h.at = "rotate" => history[h.jti] = h.sid
  /\ h.at = "history" => h.jti \in Jtis /\ Past(h.jti)
  /\ h.at = "reuse" => h.jti \in Jtis /\ h.sid \in Sids /\ owner[h.jti] = h.sid /\ Past(h.jti)
  /\ h.at \in {"rotate_fill", "reply"} /\ h.op = "refresh" => h.jti \in Jtis /\ Retired(h.jti)

HandlersOK == \A p \in Procs : HandlerOK(proc[p])

IInv == /\ TypeOK /\ RowOwnsCur /\ OwnerHasRow /\ HistoryOwned
        /\ CacheOwned /\ DeliveredOwned
        /\ RetiredInHistory /\ OneRotationPerToken /\ HandlersOK

(***************************************************************************)
(* Lemmas.                                                                 *)
(***************************************************************************)
\* The initial state satisfies the invariant.
LEMMA InitOK == Init => IInv
<1> SUFFICES ASSUME Init PROVE IInv
  OBVIOUS
<1>1. TypeOK
  BY DEF Init, TypeOK, Idle, Handling, Handler, PCs, Ops
<1>2. HandlersOK /\ OneRotationPerToken
  BY DEF Init, HandlersOK, HandlerOK, OneRotationPerToken, Idle, Handling
<1> QED
  BY <1>1, <1>2 DEF Init, IInv, RowOwnsCur, OwnerHasRow, HistoryOwned, RetiredInHistory,
              CacheOwned, DeliveredOwned

\* Postgres only moves forward: a drawn id keeps its session, a recorded id
\* its record, a past id stays past and a retired id retired.
Forward ==
  \A j \in Jtis :
    /\ owner[j] # None => owner'[j] = owner[j]
    /\ history[j] # None => history'[j] = history[j]
    /\ Past(j) => Past(j)'
    /\ Retired(j) => Retired(j)'

\* A step in which only handler p moves: the others stay in order, and if p
\* has just rotated nobody else had rotated the id before.
LEMMA MoveOK ==
  ASSUME IInv, NEW p \in Procs, proc' \in [Procs -> Handler],
         \A q \in Procs \ {p} : proc'[q] = proc[q],
         HandlerOK(proc[p])', Forward,
         proc'[p].at \in {"rotate_fill", "reply"} /\ proc'[p].op = "refresh" =>
           \/ /\ proc[p].at = "rotate_fill" /\ proc[p].op = "refresh"
              /\ proc[p].jti = proc'[p].jti
           \/ ~ Retired(proc'[p].jti)
  PROVE  HandlersOK' /\ OneRotationPerToken'
<1>1. HandlersOK /\ OneRotationPerToken
  BY DEF IInv
<1>2. HandlersOK'
  <2> SUFFICES ASSUME NEW q \in Procs PROVE HandlerOK(proc[q])'
    BY DEF HandlersOK
  <2>1. CASE q = p
    BY <2>1
  <2>2. CASE q # p
    <3>1. HandlerOK(proc[q]) /\ proc'[q] = proc[q]
      BY <1>1, <2>2 DEF HandlersOK
    <3>2. proc[q].sid \in Sids => proc[q].sid # None
      BY NoneAssumption
    <3> QED
      BY <3>1, <3>2 DEF HandlerOK, Forward, Past, Retired, Entry
  <2> QED
    BY <2>1, <2>2
<1>3. \A q \in Procs : proc[q].at \in {"rotate_fill", "reply"} /\ proc[q].op = "refresh"
                        => Retired(proc[q].jti)
  BY <1>1 DEF HandlersOK, HandlerOK
<1>4. OneRotationPerToken'
  BY <1>1, <1>3 DEF OneRotationPerToken
<1> QED
  BY <1>2, <1>4

\* A step in which handler p moves and Postgres stays as it is.
LEMMA QuietOK ==
  ASSUME IInv, NEW p \in Procs, UNCHANGED <<row, history, owner>>,
         cache' \in [Sids -> Entry \cup {None}], delivered' \in SUBSET (Sids \X Jtis),
         window' \in Seq(Jtis), proc'[p] \in Handler,
         proc' = [proc EXCEPT ![p] = proc'[p]],
         HandlerOK(proc[p])', CacheOwned', DeliveredOwned',
         proc'[p].at \in {"rotate_fill", "reply"} /\ proc'[p].op = "refresh" =>
           /\ proc[p].at = "rotate_fill" /\ proc[p].op = "refresh"
           /\ proc[p].jti = proc'[p].jti
  PROVE  IInv'
<1>1. proc' \in [Procs -> Handler] /\ \A q \in Procs \ {p} : proc'[q] = proc[q]
  BY DEF IInv, TypeOK
<1>2. Forward
  BY DEF Forward, Past, Retired
<1>3. HandlersOK' /\ OneRotationPerToken'
  BY <1>1, <1>2, MoveOK
<1>4. TypeOK'
  BY <1>1 DEF IInv, TypeOK
<1> QED
  BY <1>3, <1>4 DEF IInv, RowOwnsCur, OwnerHasRow, HistoryOwned, RetiredInHistory

\* A request that starts with a refresh token.
LEMMA FindByRefreshOK == ASSUME IInv, NEW p \in Procs, NEW j \in Jtis, FindByRefresh(p, j)
                         PROVE  IInv'
<1>0. TypeOK /\ RowOwnsCur /\ UNCHANGED <<row, history, cache, owner, delivered, window>>
      /\ CacheOwned' /\ DeliveredOwned'
  BY DEF CacheOwned, DeliveredOwned, IInv, FindByRefresh
<1>1. CASE \E s \in Active(j) :
             Become(p, Handling("find_fill", "refresh", s, j, Hydrate(row[s])))
  <2> PICK s \in Active(j) :
             Become(p, Handling("find_fill", "refresh", s, j, Hydrate(row[s])))
    BY <1>1
  <2>1. s \in Sids /\ row[s] \in Row /\ row[s].cur = j /\ owner[j] = s
    BY <1>0 DEF Active, TypeOK, RowOwnsCur
  <2>2. Hydrate(row[s]) \in Entry /\ Hydrate(row[s]).cur = j
    BY <2>1 DEF Hydrate, Entry, Row
  <2>3. proc' = [proc EXCEPT ![p] = proc'[p]] /\ proc'[p] \in Handler
    BY <1>0, <2>1, <2>2 DEF TypeOK, Become, Idle, Handling, Handler, PCs, Ops
  <2>4. HandlerOK(proc[p])' /\ proc'[p].at = "find_fill"
    BY <1>0, <2>1, <2>2 DEF TypeOK, Become, Idle, Handling, HandlerOK
  <2> QED
    BY <1>0, <2>3, <2>4, QuietOK DEF TypeOK
<1>2. CASE /\ Active(j) = {}
           /\ Become(p, Handling("history", "refresh", None, j, None))
  <2>1. proc' = [proc EXCEPT ![p] = proc'[p]] /\ proc'[p] \in Handler
    BY <1>0, <1>2 DEF TypeOK, Become, Idle, Handling, Handler, PCs, Ops
  <2>2. Past(j)
    <3>1. owner[j] \in Sids /\ row[owner[j]] # None
      <4> PICK s \in Sids : <<s, j>> \in delivered
        BY DEF FindByRefresh
      <4> QED
        BY NoneAssumption DEF IInv, OwnerHasRow, DeliveredOwned
    <3> QED
      BY <1>2, <3>1, NoneAssumption DEF Past, Active
  <2>3. HandlerOK(proc[p])' /\ proc'[p].at = "history"
    BY <1>0, <1>2, <2>2 DEF TypeOK, Become, Idle, Handling, HandlerOK, Past, Retired
  <2> QED
    BY <1>0, <2>1, <2>3, QuietOK DEF TypeOK
<1> QED
  BY <1>1, <1>2 DEF FindByRefresh

\* The three writes of a row to Redis that do not end the request.
LEMMA FillOK == ASSUME IInv, NEW p \in Procs, CreateFill(p) \/ FindFill(p) \/ RotateFill(p)
                PROVE  IInv'
<1>0. /\ TypeOK /\ proc[p] \in Handler /\ HandlerOK(proc[p])
      /\ proc[p].at \in {"create_fill", "find_fill", "rotate_fill"}
      /\ UNCHANGED <<row, history, owner, delivered, window>>
  BY DEF IInv, TypeOK, HandlersOK, CreateFill, FindFill, RotateFill, Fill
<1>1. cache' \in [Sids -> Entry \cup {None}] /\ CacheOwned' /\ DeliveredOwned'
  BY <1>0 DEF IInv, TypeOK, HandlerOK, CreateFill, FindFill, RotateFill, Fill,
              CacheOwned, DeliveredOwned
<1> DEFINE pc == IF proc[p].at = "find_fill" THEN "record" ELSE "reply"
<1>a. Goto(p, pc)
  BY DEF CreateFill, FindFill, RotateFill, Fill
<1>b. [proc[p] EXCEPT !.at = pc] \in Handler
  <2>1. pc \in PCs
    BY DEF PCs
  <2> HIDE DEF pc
  <2> QED
    BY <1>0, <2>1 DEF Handler
<1>c. proc' = [proc EXCEPT ![p] = [proc[p] EXCEPT !.at = pc]]
  <2> HIDE DEF pc
  <2> QED
    BY <1>a DEF Goto
<1>d. proc'[p] = [proc[p] EXCEPT !.at = pc]
  <2> HIDE DEF pc
  <2> QED
    BY <1>0, <1>c DEF TypeOK
<1>2. /\ proc' = [proc EXCEPT ![p] = proc'[p]] /\ proc'[p] \in Handler
      /\ proc'[p] = [proc[p] EXCEPT !.at = IF proc[p].at = "find_fill" THEN "record" ELSE "reply"]
  <2>1. proc' = [proc EXCEPT ![p] = proc'[p]] /\ proc'[p] \in Handler
    <3> HIDE DEF pc
    <3> QED
      BY <1>b, <1>c, <1>d
  <2> QED
    BY <1>d, <2>1
<1>3. HandlerOK(proc[p])'
  BY <1>0, <1>2 DEF HandlerOK, Handler, Past, Retired
<1>4. proc'[p].at = "reply" /\ proc'[p].op = "refresh" =>
         proc[p].at = "rotate_fill" /\ proc[p].op = "refresh" /\ proc[p].jti = proc'[p].jti
  BY <1>0, <1>2 DEF HandlerOK, Handler
<1>5. proc'[p].at # "rotate_fill"
  BY <1>2 DEF Handler
<1> QED
  BY <1>0, <1>1, <1>2, <1>3, <1>4, <1>5, QuietOK DEF TypeOK

\* The miss of the conditional UPDATE.
LEMMA RotateMissOK == ASSUME IInv, NEW p \in Procs, RotateMiss(p) PROVE IInv'
<1>0. /\ TypeOK /\ OwnerHasRow /\ proc[p].jti \in Jtis /\ Active(proc[p].jti) = {}
      /\ owner[proc[p].jti] \in Sids
      /\ UNCHANGED <<row, history, cache, owner, delivered, window>>
      /\ CacheOwned' /\ DeliveredOwned'
  BY DEF CacheOwned, DeliveredOwned, IInv, HandlersOK, HandlerOK, RotateMiss
<1>1. Past(proc[p].jti)
  <2>1. row[owner[proc[p].jti]] # None
    BY <1>0, NoneAssumption DEF OwnerHasRow
  <2> QED
    BY <1>0, <2>1, NoneAssumption DEF Past, Active
<1>2. /\ proc' = [proc EXCEPT ![p] = proc'[p]] /\ proc'[p] \in Handler
      /\ proc'[p].at = "history" /\ proc'[p].jti = proc[p].jti
  BY <1>0 DEF TypeOK, RotateMiss, Become, Idle, Handling, Handler, PCs, Ops
<1>3. HandlerOK(proc[p])'
  BY <1>0, <1>1, <1>2 DEF HandlerOK, Past, Retired
<1> QED
  BY <1>0, <1>2, <1>3, QuietOK DEF TypeOK

\* A handler that ends, whatever it has done to Redis and to its client.
LEMMA FinishOK == ASSUME IInv, NEW p \in Procs, Finish(p), UNCHANGED <<row, history, owner, window>>,
                         cache' \in [Sids -> Entry \cup {None}], delivered' \in SUBSET (Sids \X Jtis),
                         CacheOwned', DeliveredOwned'
                  PROVE  IInv'
<1>1. proc' = [proc EXCEPT ![p] = proc'[p]] /\ proc'[p] = Idle /\ Idle \in Handler
  BY DEF IInv, TypeOK, Finish, Become, Idle, Handling, Handler, PCs, Ops
<1>2. HandlerOK(proc[p])'
  BY <1>1 DEF HandlerOK, Idle, Handling
<1>3. window' \in Seq(Jtis) /\ proc'[p].at = "idle"
  BY <1>1 DEF IInv, TypeOK, Idle, Handling
<1> QED
  BY <1>1, <1>2, <1>3, QuietOK

\* The grace path.
LEMMA HistoryOK == ASSUME IInv, NEW p \in Procs, FindRefreshHistory(p) PROVE IInv'
<1>0. /\ TypeOK /\ HistoryOwned /\ proc[p] \in Handler
      /\ proc[p].jti \in Jtis /\ Past(proc[p].jti) /\ proc[p].at = "history"
      /\ UNCHANGED <<row, history, cache, owner, delivered, window>>
      /\ CacheOwned' /\ DeliveredOwned'
  BY DEF CacheOwned, DeliveredOwned, IInv, HandlersOK, HandlerOK, FindRefreshHistory, TypeOK
<1>1. CASE Finish(p)
  BY <1>0, <1>1, FinishOK DEF TypeOK
<1>2. CASE /\ history[proc[p].jti] # None
           /\ Become(p, Handling("get", "grace", history[proc[p].jti], proc[p].jti, None))
  <2>1. proc' = [proc EXCEPT ![p] = proc'[p]]
    BY <1>0, <1>2 DEF TypeOK, Become
  <2>2. /\ proc'[p] \in Handler /\ proc'[p].at = "get" /\ proc'[p].sid \in Sids
    BY <1>0, <1>2 DEF TypeOK, Become, Handling, Handler, PCs, Ops
  <2>3. HandlerOK(proc[p])'
    BY <2>2 DEF HandlerOK
  <2> QED
    BY <1>0, <2>1, <2>2, <2>3, QuietOK DEF TypeOK
<1>3. CASE /\ history[proc[p].jti] # None
           /\ Become(p, Handling("reuse", "refresh", history[proc[p].jti], proc[p].jti, None))
  <2>1. proc' = [proc EXCEPT ![p] = proc'[p]]
    BY <1>0, <1>3 DEF TypeOK, Become
  <2>2. /\ proc'[p] \in Handler /\ proc'[p].at = "reuse" /\ proc'[p].jti = proc[p].jti
        /\ proc'[p].sid = history[proc[p].jti] /\ history[proc[p].jti] \in Sids
    BY <1>0, <1>3 DEF TypeOK, Become, Handling, Handler, PCs, Ops
  <2>3. HandlerOK(proc[p])'
    BY <1>0, <1>3, <2>2 DEF HandlerOK, HistoryOwned, Past, Retired
  <2> QED
    BY <1>0, <2>1, <2>2, <2>3, QuietOK DEF TypeOK
<1> QED
  BY <1>1, <1>2, <1>3 DEF FindRefreshHistory

\* findBySession, and the caller that gets the session e.
LEMMA FoundOK == ASSUME IInv, NEW p \in Procs, NEW e \in Entry, Found(p, e),
                        proc[p].sid \in Sids, owner[e.cur] = proc[p].sid,
                        UNCHANGED <<row, history, owner, delivered, window>>,
                        cache' \in [Sids -> Entry \cup {None}], CacheOwned'
                 PROVE  IInv'
<1>0. DeliveredOwned'
  BY DEF IInv, DeliveredOwned
<1>1. CASE Finish(p)
  BY <1>0, <1>1, FinishOK DEF IInv, TypeOK
<1>2. CASE proc[p].op = "grace" /\ Become(p, Handling("reply", "grace", proc[p].sid, proc[p].jti, e))
  <2>0. proc \in [Procs -> Handler] /\ delivered' \in SUBSET (Sids \X Jtis) /\ window' \in Seq(Jtis)
    BY DEF IInv, TypeOK
  <2>1. proc' = [proc EXCEPT ![p] = proc'[p]]
    BY <1>2, <2>0 DEF Become
  <2>2. proc'[p] = Handling("reply", "grace", proc[p].sid, proc[p].jti, e)
    BY <1>2, <2>0 DEF Become
  <2>3. proc'[p] \in Handler /\ proc'[p].at = "reply" /\ proc'[p].op = "grace"
        /\ proc'[p].snap = e /\ proc'[p].sid = proc[p].sid
    BY <1>2, <2>0, <2>2 DEF Handling, Handler, PCs, Ops
  <2>4. HandlerOK(proc[p])'
    BY <2>3 DEF HandlerOK
  <2> QED
    BY <1>0, <2>0, <2>1, <2>3, <2>4, QuietOK
<1> QED
  BY <1>1, <1>2 DEF Found

\* A handler reads the cached copy of its session.
LEMMA CacheGetOK == ASSUME IInv, NEW p \in Procs, CacheGet(p) PROVE IInv'
<1>0. TypeOK /\ proc[p] \in Handler /\ UNCHANGED <<row, history, cache, owner, delivered, window>>
      /\ CacheOwned' /\ DeliveredOwned'
  BY DEF CacheOwned, DeliveredOwned, IInv, TypeOK, CacheGet
<1>1. CASE cache[proc[p].sid] # None /\ Found(p, cache[proc[p].sid])
  <2>1. proc[p].sid \in Sids
    BY DEF IInv, HandlersOK, HandlerOK, CacheGet
  <2>2. cache[proc[p].sid] \in Entry /\ owner[cache[proc[p].sid].cur] = proc[p].sid
    BY <1>0, <1>1, <2>1 DEF TypeOK, IInv, CacheOwned
  <2> QED
    BY <1>0, <1>1, <2>1, <2>2, FoundOK DEF TypeOK
<1>2. CASE cache[proc[p].sid] = None /\ Goto(p, "select")
  <2>1. /\ proc' = [proc EXCEPT ![p] = proc'[p]] /\ proc'[p] \in Handler
        /\ proc'[p].at = "select" /\ proc'[p].sid = proc[p].sid
    BY <1>0, <1>2 DEF TypeOK, Goto, Handler, PCs
  <2>2. HandlerOK(proc[p])'
    BY <2>1 DEF HandlerOK, IInv, HandlersOK, CacheGet
  <2> QED
    BY <1>0, <2>1, <2>2, QuietOK DEF TypeOK
<1> QED
  BY <1>1, <1>2 DEF CacheGet

\* It found none and reads the row.
LEMMA SelectOK == ASSUME IInv, NEW p \in Procs, SelectBySession(p) PROVE IInv'
<1>0. /\ TypeOK /\ proc[p] \in Handler /\ proc[p].sid \in Sids
      /\ UNCHANGED <<row, history, cache, owner, delivered, window>>
      /\ CacheOwned' /\ DeliveredOwned'
  BY DEF CacheOwned, DeliveredOwned, IInv, TypeOK, HandlersOK, HandlerOK, SelectBySession
<1>1. CASE Finish(p)
  BY <1>0, <1>1, FinishOK DEF TypeOK
<1>2. CASE /\ row[proc[p].sid] # None
           /\ Become(p, Handling("session_fill", proc[p].op, proc[p].sid, proc[p].jti,
                                 Hydrate(row[proc[p].sid])))
  <2>1. /\ Hydrate(row[proc[p].sid]) \in Entry
        /\ owner[Hydrate(row[proc[p].sid]).cur] = proc[p].sid
    BY <1>0, <1>2 DEF TypeOK, Hydrate, Entry, Row, IInv, RowOwnsCur
  <2>2. proc' = [proc EXCEPT ![p] = proc'[p]]
    BY <1>0, <1>2 DEF TypeOK, Become
  <2>3. proc'[p] = Handling("session_fill", proc[p].op, proc[p].sid, proc[p].jti,
                            Hydrate(row[proc[p].sid]))
    BY <1>0, <1>2 DEF TypeOK, Become
  <2>4. /\ proc'[p] \in Handler /\ proc'[p].at = "session_fill" 
        /\ proc'[p].snap = Hydrate(row[proc[p].sid]) /\ proc'[p].sid = proc[p].sid
    BY <1>0, <2>1, <2>3 DEF Handling, Handler, PCs, Ops
  <2>5. HandlerOK(proc[p])'
    BY <1>0, <2>1, <2>4 DEF HandlerOK
  <2> QED
    BY <1>0, <2>2, <2>4, <2>5, QuietOK DEF TypeOK
<1> QED
  BY <1>1, <1>2 DEF SelectBySession

\* It stores what it read, however old that is by now.
LEMMA SessionFillOK == ASSUME IInv, NEW p \in Procs, SessionFill(p) PROVE IInv'
<1>1. /\ proc[p].snap \in Entry /\ Found(p, proc[p].snap)
      /\ proc[p].sid \in Sids /\ owner[proc[p].snap.cur] = proc[p].sid
  BY DEF IInv, HandlersOK, HandlerOK, SessionFill
<1>2. /\ cache' \in [Sids -> Entry \cup {None}] /\ CacheOwned'
      /\ UNCHANGED <<row, history, owner, delivered, window>>
  BY <1>1 DEF IInv, TypeOK, CacheOwned, SessionFill
<1> QED
  BY <1>1, <1>2, FoundOK

\* A request with an access token begins.
LEMMA AccessOK == ASSUME IInv, NEW p \in Procs, NEW s \in Sids, Access(p, s) PROVE IInv'
<1>0. TypeOK /\ UNCHANGED <<row, history, cache, owner, delivered, window>>
      /\ CacheOwned' /\ DeliveredOwned'
  BY DEF CacheOwned, DeliveredOwned, IInv, Access
<1>1. /\ proc' = [proc EXCEPT ![p] = proc'[p]] /\ proc'[p] \in Handler
      /\ proc'[p].at = "get" /\ proc'[p].sid = s
  BY <1>0 DEF Access, TypeOK, Become, Idle, Handling, Handler, PCs, Ops
<1>2. HandlerOK(proc[p])'
  BY <1>1 DEF HandlerOK
<1> QED
  BY <1>0, <1>1, <1>2, QuietOK DEF TypeOK

\* The reply, and a handler that stops.
LEMMA EndOK == ASSUME IInv, NEW p \in Procs, Reply(p) \/ Fail(p) PROVE IInv'
<1>1. CASE Reply(p)
  <2>1. /\ proc[p].sid \in Sids /\ proc[p].snap.cur \in Jtis
        /\ owner[proc[p].snap.cur] = proc[p].sid
    BY <1>1, NoneAssumption DEF Reply, IInv, HandlersOK, HandlerOK, Entry
  <2>2. delivered' \in SUBSET (Sids \X Jtis) /\ DeliveredOwned'
    BY <1>1, <2>1 DEF Reply, IInv, TypeOK, DeliveredOwned
  <2>3. UNCHANGED <<row, history, cache, owner, window>> /\ CacheOwned' /\ Finish(p)
    BY <1>1 DEF Reply, IInv, CacheOwned
  <2> QED
    BY <2>2, <2>3, FinishOK DEF IInv, TypeOK
<1>2. CASE Fail(p)
  BY <1>2, FinishOK DEF Fail, IInv, TypeOK, CacheOwned, DeliveredOwned
<1> QED
  BY <1>1, <1>2

\* A revocation deletes the cached copy of one of its sessions.
LEMMA CacheInvalidateOK == ASSUME IInv, NEW p \in Procs, NEW s \in Sids, CacheInvalidate(p, s)
                           PROVE  IInv'
<1>0. /\ TypeOK /\ proc[p] \in Handler /\ UNCHANGED <<row, history, owner, delivered, window>>
      /\ cache' \in [Sids -> Entry \cup {None}] /\ proc[p].at = "del"
      /\ CacheOwned' /\ DeliveredOwned'
  BY DEF IInv, TypeOK, CacheInvalidate, CacheOwned, DeliveredOwned
<1>1. CASE Finish(p)
  BY <1>0, <1>1, FinishOK DEF TypeOK
<1>2. CASE proc' = [proc EXCEPT ![p].todo = @ \ {s}]
  <2>1. proc' = [proc EXCEPT ![p] = proc'[p]] /\ proc'[p] \in Handler /\ proc'[p].at = "del"
    BY <1>0, <1>2 DEF TypeOK, Handler
  <2>2. HandlerOK(proc[p])'
    BY <2>1 DEF HandlerOK
  <2> QED
    BY <1>0, <2>1, <2>2, QuietOK DEF TypeOK
<1> QED
  BY <1>1, <1>2 DEF CacheInvalidate

(***************************************************************************)
(* The steps that write to Postgres.                                       *)
(***************************************************************************)
\* A session is inserted, with an id nobody has drawn.
LEMMA CreateOK == ASSUME IInv, NEW p \in Procs, NEW s \in Sids, NEW j \in Jtis, NEW c \in Clients,
                         Create(p, s, j, c)
                  PROVE  IInv'
<1> DEFINE h == Handling("create_fill", "login", s, None, [cur |-> j, revoked |-> FALSE])
<1>0. /\ TypeOK /\ RowOwnsCur /\ OwnerHasRow /\ HistoryOwned /\ RetiredInHistory
      /\ row[s] = None /\ owner[j] = None
      /\ row' = [row EXCEPT ![s] = [cur |-> j, revoked |-> FALSE, client |-> c]]
      /\ owner' = [owner EXCEPT ![j] = s] /\ Become(p, h)
      /\ UNCHANGED <<history, cache, delivered, window>>
  BY DEF IInv, Create
<1>1. [cur |-> j, revoked |-> FALSE, client |-> c] \in Row /\ [cur |-> j, revoked |-> FALSE] \in Entry
  BY DEF Row, Entry
<1>2. /\ row' \in [Sids -> Row \cup {None}] /\ owner' \in [Jtis -> Sids \cup {None}]
      /\ row'[s] \in Row /\ row'[s].cur = j /\ owner'[j] = s
      /\ \A i \in Sids \ {s} : row'[i] = row[i]
      /\ \A i \in Jtis \ {j} : owner'[i] = owner[i]
  BY <1>0, <1>1 DEF TypeOK
<1>3. h \in Handler
  BY <1>1 DEF Handling, Handler, PCs, Ops
<1>4. proc' \in [Procs -> Handler] /\ proc'[p] = h /\ \A q \in Procs \ {p} : proc'[q] = proc[q]
  BY <1>0, <1>3 DEF TypeOK, Become
<1>5. s # None /\ \A i \in Jtis : owner[i] # s
  BY <1>0, NoneAssumption DEF OwnerHasRow, TypeOK
<1>6. Forward
  <2> SUFFICES ASSUME NEW i \in Jtis
               PROVE  /\ owner[i] # None => owner'[i] = owner[i]
                      /\ Past(i) => Past(i)'
                      /\ Retired(i) => Retired(i)'
    BY <1>0 DEF Forward
  <2>1. CASE i = j
    BY <1>0, <1>2, <2>1 DEF Past, Retired
  <2>2. CASE i # j
    <3>1. owner'[i] = owner[i] /\ owner[i] # s /\ owner[i] \in Sids \cup {None}
      BY <1>0, <1>2, <1>5, <2>2 DEF TypeOK
    <3> QED
      BY <1>2, <3>1 DEF Past, Retired
  <2> QED
    BY <2>1, <2>2
<1>7. HandlerOK(proc[p])'
  BY <1>1, <1>2, <1>4 DEF Handling, HandlerOK
<1>8. HandlersOK' /\ OneRotationPerToken'
  <2>1. proc'[p].at = "create_fill"
    BY <1>4 DEF Handling
  <2> QED
    BY <1>4, <1>6, <1>7, <2>1, MoveOK
<1>9. RowOwnsCur' /\ HistoryOwned'
  BY <1>0, <1>2, <1>5, NoneAssumption DEF RowOwnsCur, HistoryOwned, TypeOK, Row
<1>11. CacheOwned' /\ DeliveredOwned'
  BY <1>0, <1>2, <1>5, NoneAssumption DEF IInv, CacheOwned, DeliveredOwned, TypeOK, Entry
<1>10. OwnerHasRow' /\ RetiredInHistory'
  BY <1>0, <1>2, <1>5, NoneAssumption DEF OwnerHasRow, RetiredInHistory, TypeOK
<1> QED
  BY <1>0, <1>2, <1>4, <1>8, <1>9, <1>10, <1>11 DEF IInv, TypeOK

\* The id about to be rotated is recorded.
LEMMA RecordOK == ASSUME IInv, NEW p \in Procs, RecordRefreshRotation(p) PROVE IInv'
<1>0. /\ TypeOK /\ HistoryOwned /\ RetiredInHistory /\ proc[p] \in Handler
      /\ proc[p].jti \in Jtis /\ proc[p].sid \in Sids /\ owner[proc[p].jti] = proc[p].sid
      /\ proc[p].at = "record" /\ Goto(p, "rotate")
      /\ UNCHANGED <<row, cache, owner, delivered>>
  BY DEF IInv, HandlersOK, HandlerOK, RecordRefreshRotation, TypeOK
<1>1. proc[p].sid # None
  BY <1>0, NoneAssumption
<1>2. /\ history' \in [Jtis -> Sids \cup {None}] /\ window' \in Seq(Jtis)
      /\ history'[proc[p].jti] = proc[p].sid
      /\ \A i \in Jtis : history[i] # None => history'[i] = history[i]
      /\ \A i \in Jtis : history'[i] # None => history'[i] = owner[i]
  <2>1. CASE /\ history[proc[p].jti] = None
             /\ history' = [history EXCEPT ![proc[p].jti] = proc[p].sid]
             /\ window' = Append(window, proc[p].jti)
    BY <1>0, <2>1 DEF TypeOK, HistoryOwned
  <2>2. CASE history[proc[p].jti] # None /\ UNCHANGED <<history, window>>
    BY <1>0, <2>2 DEF TypeOK, HistoryOwned
  <2> QED
    BY <2>1, <2>2 DEF RecordRefreshRotation
<1>3. /\ proc' \in [Procs -> Handler] /\ \A q \in Procs \ {p} : proc'[q] = proc[q]
      /\ proc'[p] = [proc[p] EXCEPT !.at = "rotate"]
  BY <1>0 DEF TypeOK, Goto, Handler, PCs
<1>4. Forward
  BY <1>0, <1>2 DEF Forward, Past, Retired
<1>5. HandlerOK(proc[p])' /\ proc'[p].at = "rotate"
  BY <1>0, <1>2, <1>3 DEF HandlerOK, Handler
<1>6. HandlersOK' /\ OneRotationPerToken'
  BY <1>3, <1>4, <1>5, MoveOK
<1>7. HistoryOwned' /\ RetiredInHistory' /\ CacheOwned' /\ DeliveredOwned'
  BY <1>0, <1>2 DEF IInv, HistoryOwned, RetiredInHistory, CacheOwned, DeliveredOwned, TypeOK
<1> QED
  BY <1>0, <1>2, <1>3, <1>6, <1>7 DEF IInv, TypeOK, RowOwnsCur, OwnerHasRow

\* The recorded id is rotated away.
LEMMA RotateOK == ASSUME IInv, NEW p \in Procs, NEW new \in Jtis, RotateRefresh(p, new)
                  PROVE  IInv'
<1> PICK old \in Jtis : old = proc[p].jti
  BY DEF IInv, HandlersOK, HandlerOK, RotateRefresh
<1>0. /\ TypeOK /\ RowOwnsCur /\ OwnerHasRow /\ HistoryOwned /\ RetiredInHistory
      /\ old \in Jtis /\ owner[old] = proc[p].sid /\ history[old] = proc[p].sid
      /\ proc[p].at = "rotate" /\ owner[new] = None
      /\ UNCHANGED <<history, cache, delivered, window>>
  BY DEF IInv, HandlersOK, HandlerOK, RotateRefresh
<1> PICK s \in Active(old) :
      /\ row' = [row EXCEPT ![s].cur = new]
      /\ owner' = [owner EXCEPT ![new] = s]
      /\ Become(p, Handling("rotate_fill", "refresh", s, old, Hydrate(row'[s])))
  BY DEF RotateRefresh
<1>1. /\ s \in Sids /\ s # None /\ row[s] \in Row /\ row[s].cur = old /\ ~row[s].revoked
      /\ owner[old] = s /\ history[old] = s
  BY <1>0, NoneAssumption DEF Active, TypeOK, RowOwnsCur
<1>2. /\ row'[s] \in Row /\ row'[s].cur = new
      /\ \A i \in Sids \ {s} : row'[i] = row[i]
      /\ row' \in [Sids -> Row \cup {None}] /\ owner' \in [Jtis -> Sids \cup {None}]
      /\ owner'[new] = s /\ \A i \in Jtis \ {new} : owner'[i] = owner[i]
  BY <1>0, <1>1 DEF TypeOK, Row
<1>3. Hydrate(row'[s]) \in Entry /\ Hydrate(row'[s]).cur = new
  BY <1>2 DEF Hydrate, Row, Entry
<1>4. Handling("rotate_fill", "refresh", s, old, Hydrate(row'[s])) \in Handler
  BY <1>0, <1>1, <1>3 DEF Handling, Handler, PCs, Ops
<1>5. /\ proc' \in [Procs -> Handler] /\ \A q \in Procs \ {p} : proc'[q] = proc[q]
      /\ proc'[p] = Handling("rotate_fill", "refresh", s, old, Hydrate(row'[s]))
  BY <1>0, <1>4 DEF TypeOK, Become
<1>6. new # old /\ row'[s] # None /\ row'[s].revoked = row[s].revoked
  BY <1>0, <1>1, <1>2, NoneAssumption DEF TypeOK, Row
<1>7. Forward
  <2> SUFFICES ASSUME NEW i \in Jtis
               PROVE  /\ owner[i] # None => owner'[i] = owner[i]
                      /\ Past(i) => Past(i)'
                      /\ Retired(i) => Retired(i)'
    BY <1>0 DEF Forward
  <2>1. CASE i = new
    BY <1>0, <1>2, <1>3, <2>1 DEF Past, Retired
  <2>2. CASE i # new
    <3>1. owner'[i] = owner[i] /\ owner[i] \in Sids \cup {None}
      BY <1>0, <1>2, <2>2 DEF TypeOK
    <3> QED
      BY <1>1, <1>2, <1>6, <2>2, <3>1 DEF Past, Retired
  <2> QED
    BY <2>1, <2>2
<1>8. ~Retired(old) /\ Retired(old)'
  BY <1>0, <1>1, <1>2, <1>6 DEF Retired
<1>9. HandlerOK(proc[p])'
  BY <1>0, <1>1, <1>2, <1>3, <1>5, <1>8 DEF HandlerOK, Handling, Retired
<1>10. HandlersOK' /\ OneRotationPerToken'
  <2>1. proc'[p].jti = old
    BY <1>5 DEF Handling
  <2> QED
    BY <1>5, <1>7, <1>8, <1>9, <2>1, MoveOK
<1>11. RowOwnsCur' /\ OwnerHasRow' /\ HistoryOwned'
  BY <1>0, <1>1, <1>2, <1>6, NoneAssumption DEF RowOwnsCur, OwnerHasRow, HistoryOwned, TypeOK
<1>13. CacheOwned' /\ DeliveredOwned'
  BY <1>0, <1>1, <1>2, NoneAssumption DEF IInv, CacheOwned, DeliveredOwned, TypeOK, Entry
<1>12. RetiredInHistory'
  BY <1>0, <1>1, <1>2, <1>6 DEF RetiredInHistory, TypeOK
<1> QED
  BY <1>0, <1>2, <1>5, <1>10, <1>11, <1>12, <1>13 DEF IInv, TypeOK

\* Rows are revoked: none of their ids changes.
LEMMA RevokeOK == ASSUME IInv, NEW p \in Procs, NEW S \in SUBSET Sids, RevokeRows(p, S),
                         \A s \in S : row[s] # None
                  PROVE  IInv'
<1>0. /\ TypeOK /\ row' = [s \in Sids |-> IF s \in S THEN [row[s] EXCEPT !.revoked = TRUE] ELSE row[s]]
      /\ UNCHANGED <<history, cache, owner, delivered, window>>
  BY DEF IInv, RevokeRows
<1>1. \A s \in Sids : row[s] # None =>
        row'[s] \in Row /\ row'[s].cur = row[s].cur /\ (row[s].revoked => row'[s].revoked)
  BY <1>0 DEF TypeOK, Row
<1>2. \A s \in Sids : (row'[s] = None) = (row[s] = None)
  BY <1>0, <1>1, NoneAssumption
<1>3. row' \in [Sids -> Row \cup {None}]
  BY <1>0, <1>1 DEF TypeOK
<1>4. Idle \in Handler /\ Deleting(S) \in Handler
  BY DEF Idle, Handling, Deleting, Handler, PCs, Ops
<1>5. /\ proc' \in [Procs -> Handler] /\ \A q \in Procs \ {p} : proc'[q] = proc[q]
      /\ proc'[p] \in {Idle, Deleting(S)}
  BY <1>0, <1>4 DEF TypeOK, RevokeRows, Become
<1>6. HandlerOK(proc[p])' /\ proc'[p].at \in {"idle", "del"}
  BY <1>5 DEF HandlerOK, Idle, Handling, Deleting
<1>7. Forward
  BY <1>0, <1>1 DEF Forward, Past, Retired, TypeOK, IInv, OwnerHasRow
<1>8. HandlersOK' /\ OneRotationPerToken'
  BY <1>5, <1>6, <1>7, MoveOK
<1>9. RowOwnsCur' /\ OwnerHasRow' /\ HistoryOwned' /\ RetiredInHistory'
  BY <1>0, <1>1, <1>2 DEF IInv, TypeOK, RowOwnsCur, OwnerHasRow, HistoryOwned, RetiredInHistory
<1>10. CacheOwned' /\ DeliveredOwned'
  BY <1>0 DEF IInv, CacheOwned, DeliveredOwned
<1> QED
  BY <1>0, <1>3, <1>5, <1>8, <1>9, <1>10 DEF IInv, TypeOK

\* Redis drops a key, or the grace period of a recording ends.
LEMMA EnvironmentOK == ASSUME IInv, GraceLapse \/ \E s \in Sids : CacheExpire(s) PROVE IInv'
<1>1. UNCHANGED <<row, history, proc, owner, delivered>>
  BY DEF GraceLapse, CacheExpire
<1>2. cache' \in [Sids -> Entry \cup {None}] /\ CacheOwned' /\ window' \in Seq(Jtis)
  <2>1. CASE GraceLapse
    BY <2>1 DEF IInv, TypeOK, CacheOwned, GraceLapse
  <2>2. CASE \E s \in Sids : CacheExpire(s)
    BY <2>2 DEF IInv, TypeOK, CacheOwned, CacheExpire
  <2> QED
    BY <2>1, <2>2
<1>3. HandlersOK' /\ OneRotationPerToken'
  BY <1>1 DEF IInv, HandlersOK, HandlerOK, Past, Retired, OneRotationPerToken
<1> QED
  BY <1>1, <1>2, <1>3 DEF IInv, TypeOK, RowOwnsCur, OwnerHasRow, HistoryOwned,
                          RetiredInHistory, DeliveredOwned

\* The rows a handler revokes exist.
LEMMA RevocationsOK ==
  ASSUME IInv, NEW p \in Procs,
         \/ \E s \in Sids : Revoke(p, s)
         \/ \E c \in Clients : RevokeByClient(p, c)
         \/ RevokeReused(p)
  PROVE  IInv'
<1>1. CASE \E s \in Sids : Revoke(p, s)
  <2> PICK s \in Sids : Revoke(p, s)
    BY <1>1
  <2>1. row[s] # None
    BY NoneAssumption DEF Revoke, Delivered, IInv, TypeOK, OwnerHasRow, DeliveredOwned
  <2> QED
    BY <2>1, RevokeOK DEF Revoke
<1>2. CASE \E c \in Clients : RevokeByClient(p, c)
  BY <1>2, RevokeOK DEF RevokeByClient
<1>3. CASE RevokeReused(p)
  <2>1. proc[p].sid \in Sids /\ row[proc[p].sid] # None
    BY <1>3 DEF RevokeReused, IInv, HandlersOK, HandlerOK, Past, OwnerHasRow
  <2> QED
    BY <1>3, <2>1, RevokeOK DEF RevokeReused
<1> QED
  BY <1>1, <1>2, <1>3

\* Every step preserves the invariant.
LEMMA NextOK == IInv /\ [Next]_vars => IInv'
<1> SUFFICES ASSUME IInv, [Next]_vars PROVE IInv'
  OBVIOUS
<1>1. ASSUME NEW p \in Procs, Start(p) PROVE IInv'
  BY <1>1, CreateOK, FindByRefreshOK, AccessOK, RevocationsOK DEF Start
<1>2. ASSUME NEW p \in Procs, Step(p) PROVE IInv'
  BY <1>2, FillOK, RecordOK, RotateOK, RotateMissOK, HistoryOK, EndOK, CacheGetOK, SelectOK,
     SessionFillOK, RevocationsOK, CacheInvalidateOK DEF Step
<1>3. ASSUME NEW p \in Procs, Fail(p) PROVE IInv'
  BY <1>3, EndOK
<1>4. CASE GraceLapse \/ \E s \in Sids : CacheExpire(s)
  BY <1>4, EnvironmentOK
<1>5. CASE UNCHANGED vars
  BY <1>5 DEF vars, IInv, TypeOK, RowOwnsCur, OwnerHasRow, HistoryOwned, CacheOwned,
              DeliveredOwned, RetiredInHistory, OneRotationPerToken, HandlersOK, HandlerOK,
              Past, Retired
<1> QED
  BY <1>1, <1>2, <1>3, <1>4, <1>5 DEF Next

(***************************************************************************)
(* Theorems.                                                               *)
(***************************************************************************)
\* The invariant holds throughout every run.
THEOREM Invariance == Spec => []IInv
<1> QED
  BY InitOK, NextOK, PTL DEF Spec

\* Every variable keeps its type.
THEOREM TypeCorrect == Spec => []TypeOK
<1>1. IInv => TypeOK
  BY DEF IInv
<1> QED
  BY <1>1, Invariance, PTL

\* A replayed refresh token is always recognised, whichever handlers stopped
\* between recordRefreshRotation and rotateRefresh.
THEOREM ReuseDetectable == Spec => []RetiredInHistory
<1>1. IInv => RetiredInHistory
  BY DEF IInv
<1> QED
  BY <1>1, Invariance, PTL

\* The conditional UPDATE of rotateRefresh lets one concurrent request win.
THEOREM OneWinner == Spec => []OneRotationPerToken
<1>1. IInv => OneRotationPerToken
  BY DEF IInv
<1> QED
  BY <1>1, Invariance, PTL

\* The reuse branch never fires for the current token of a live session.
THEOREM NoFalseAccusation == Spec => []ReuseOnlyOfRetired
<1>1. IInv => ReuseOnlyOfRetired
  BY DEF IInv, HandlersOK, HandlerOK, Past, ReuseOnlyOfRetired
<1> QED
  BY <1>1, Invariance, PTL

\* What a handler may hold of a dead session s.
Harmless(h, s) == h.sid = s =>
  /\ h.at \notin {"rotate_fill", "reply"}
  /\ h.at \in {"create_fill", "find_fill", "session_fill"} => h.snap.revoked

\* What is left to show of a step of handler p.
LEMMA DeadKept ==
  ASSUME IInv, NEW s \in Sids, Dead(s), NEW p \in Procs, NEW h, Become(p, h), Harmless(h, s),
         row'[s] # None /\ row'[s].revoked, cache'[s] = None \/ cache'[s].revoked
  PROVE  Dead(s)'
<1>1. \A q \in Procs : proc'[q] = IF q = p THEN h ELSE proc[q]
  BY DEF IInv, TypeOK, Become
<1> QED
  BY <1>1 DEF Dead, Harmless

\* Nobody takes a revocation back.
LEMMA DeadRevoke == ASSUME IInv, NEW s \in Sids, Dead(s), NEW p \in Procs, NEW S \in SUBSET Sids,
                           RevokeRows(p, S)
                    PROVE  Dead(s)'
<1>1. row'[s] \in Row /\ row'[s].revoked /\ cache' = cache
  BY DEF RevokeRows, Row, IInv, TypeOK, Dead
<1>2. Harmless(Idle, s) /\ Harmless(Deleting(S), s)
  BY DEF Harmless, Idle, Handling, Deleting
<1> QED
  BY <1>1, <1>2, NoneAssumption, DeadKept DEF RevokeRows, Dead

\* A request that starts finds nothing of a dead session.
LEMMA DeadStart == ASSUME IInv, NEW s \in Sids, Dead(s), NEW p \in Procs, Start(p)
                   PROVE  Dead(s)'
<1>0. row[s] \in Row /\ row[s].revoked
  BY DEF IInv, TypeOK, Dead
<1>1. CASE \E i \in Sids, j \in Jtis, c \in Clients : Create(p, i, j, c)
  <2> PICK i \in Sids, j \in Jtis, c \in Clients : Create(p, i, j, c)
    BY <1>1
  <2>1. i # s /\ row'[s] = row[s] /\ cache' = cache
    BY <1>0, NoneAssumption DEF Create, IInv, TypeOK
  <2> DEFINE h == Handling("create_fill", "login", i, None, [cur |-> j, revoked |-> FALSE])
  <2>2. Become(p, h) /\ Harmless(h, s)
    BY <2>1 DEF Create, Harmless, Handling
  <2> QED
    BY <1>0, <2>1, <2>2, NoneAssumption, DeadKept DEF Dead
<1>2. CASE \E j \in Jtis : FindByRefresh(p, j)
  <2> PICK j \in Jtis : FindByRefresh(p, j)
    BY <1>2
  <2>1. row' = row /\ cache' = cache
    BY DEF FindByRefresh
  <2>2. ASSUME NEW i \in Active(j), Become(p, Handling("find_fill", "refresh", i, j, Hydrate(row[i])))
        PROVE  Dead(s)'
    <3>1. i # s
      BY <1>0 DEF Active
    <3>2. Harmless(Handling("find_fill", "refresh", i, j, Hydrate(row[i])), s)
      BY <3>1 DEF Harmless, Handling
    <3> QED
      BY <2>1, <2>2, <3>2, DeadKept DEF Dead
  <2>3. ASSUME Become(p, Handling("history", "refresh", None, j, None))
        PROVE  Dead(s)'
    <3>1. Harmless(Handling("history", "refresh", None, j, None), s)
      BY DEF Harmless, Handling
    <3> QED
      BY <2>1, <2>3, <3>1, DeadKept DEF Dead
  <2> QED
    BY <2>2, <2>3 DEF FindByRefresh
<1>3. CASE \E i \in Sids : Access(p, i)
  <2> PICK i \in Sids : Access(p, i)
    BY <1>3
  <2>1. Harmless(Handling("get", "access", i, None, None), s)
    BY DEF Harmless, Handling
  <2> QED
    BY <2>1, DeadKept DEF Access, Dead
<1> QED
  BY <1>1, <1>2, <1>3, DeadRevoke DEF Start, Revoke, RevokeByClient

\* A handler in progress neither re-caches nor serves a dead session.
LEMMA DeadStep == ASSUME IInv, NEW s \in Sids, Dead(s), NEW p \in Procs, Step(p) \/ Fail(p)
                  PROVE  Dead(s)'
<1>0. /\ row[s] \in Row /\ row[s].revoked /\ proc[p] \in Handler
      /\ HandlerOK(proc[p]) /\ Harmless(proc[p], s)
      /\ cache \in [Sids -> Entry \cup {None}]
  BY DEF IInv, TypeOK, HandlersOK, Dead, Harmless
<1>1. ASSUME Finish(p), row' = row, cache'[s] = None \/ cache'[s].revoked
      PROVE  Dead(s)'
  <2>1. Harmless(Idle, s)
    BY DEF Harmless, Idle, Handling
  <2> QED
    BY <1>1, <2>1, DeadKept DEF Finish, Dead
<1>2. ASSUME NEW pc \in {"reply", "record", "rotate", "select"}, Goto(p, pc), row' = row,
             pc = "reply" => proc[p].sid # s,
             cache'[s] = None \/ cache'[s].revoked
      PROVE  Dead(s)'
  <2>1. Become(p, [proc[p] EXCEPT !.at = pc])
    BY <1>2 DEF Goto, Become
  <2>2. Harmless([proc[p] EXCEPT !.at = pc], s)
    BY <1>0, <1>2 DEF Harmless, Handler
  <2> QED
    BY <1>2, <2>1, <2>2, DeadKept DEF Dead
<1>3. CASE CreateFill(p) \/ FindFill(p) \/ RotateFill(p)
  <2>1. row' = row /\ (cache'[s] = None \/ cache'[s].revoked)
    BY <1>0, <1>3 DEF CreateFill, FindFill, RotateFill, Fill, Harmless, Dead
  <2>2. CASE FindFill(p)
    BY <1>2, <2>1, <2>2 DEF FindFill, Fill
  <2>3. CASE CreateFill(p) \/ RotateFill(p)
    <3>1. proc[p].sid # s
      BY <1>0, <2>3 DEF CreateFill, RotateFill, HandlerOK, Harmless
    <3> QED
      BY <1>2, <2>1, <2>3, <3>1 DEF CreateFill, RotateFill, Fill
  <2> QED
    BY <1>3, <2>2, <2>3
<1>4. CASE RecordRefreshRotation(p)
  BY <1>2, <1>4 DEF RecordRefreshRotation, Dead
<1>5. CASE \E new \in Jtis : RotateRefresh(p, new)
  <2> PICK new \in Jtis : RotateRefresh(p, new)
    BY <1>5
  <2> PICK i \in Active(proc[p].jti) :
      /\ row' = [row EXCEPT ![i].cur = new]
      /\ Become(p, Handling("rotate_fill", "refresh", i, proc[p].jti, Hydrate(row'[i])))
    BY DEF RotateRefresh
  <2>1. i # s /\ row'[s] = row[s] /\ cache' = cache
    BY <1>0 DEF Active, RotateRefresh, IInv, TypeOK
  <2>2. \A q \in Procs : proc'[q] = proc[q] \/ proc'[q].sid = i
    BY DEF Become, Handling, IInv, TypeOK
  <2> QED
    BY <2>1, <2>2 DEF Dead
<1>6. CASE RotateMiss(p)
  <2>1. Harmless(Handling("history", "refresh", None, proc[p].jti, None), s)
    BY DEF Harmless, Handling
  <2> QED
    BY <1>6, <2>1, DeadKept DEF RotateMiss, Dead
<1>7. CASE FindRefreshHistory(p)
  <2>1. /\ Harmless(Handling("get", "grace", history[proc[p].jti], proc[p].jti, None), s)
        /\ Harmless(Handling("reuse", "refresh", history[proc[p].jti], proc[p].jti, None), s)
    BY DEF Harmless, Handling
  <2> QED
    BY <1>1, <1>7, <2>1, DeadKept DEF FindRefreshHistory, Dead
<1>8. CASE Reply(p) \/ Fail(p)
  BY <1>1, <1>8 DEF Reply, Fail, Dead
<1>9. ASSUME NEW e \in Entry, Found(p, e), row' = row, proc[p].sid = s => e.revoked,
             cache'[s] = None \/ cache'[s].revoked
      PROVE  Dead(s)'
  <2>1. CASE Finish(p)
    BY <1>1, <1>9, <2>1
  <2>2. CASE ~e.revoked /\ Become(p, Handling("reply", "grace", proc[p].sid, proc[p].jti, e))
    <3>1. Harmless(Handling("reply", "grace", proc[p].sid, proc[p].jti, e), s)
      BY <1>9, <2>2 DEF Harmless, Handling
    <3> QED
      BY <1>9, <2>2, <3>1, DeadKept DEF Dead
  <2> QED
    BY <1>9, <2>1, <2>2 DEF Found
<1>10. CASE CacheGet(p)
  <2>1. proc[p].sid \in Sids /\ row' = row /\ cache' = cache
    BY <1>0, <1>10 DEF CacheGet, HandlerOK
  <2>2. CASE cache[proc[p].sid] # None /\ Found(p, cache[proc[p].sid])
    <3>1. cache[proc[p].sid] \in Entry /\ (proc[p].sid = s => cache[proc[p].sid].revoked)
      BY <1>0, <2>1, <2>2 DEF Dead
    <3> QED
      BY <1>9, <2>1, <2>2, <3>1 DEF Dead
  <2>3. CASE Goto(p, "select")
    BY <1>2, <2>1, <2>3 DEF Dead
  <2> QED
    BY <1>10, <2>2, <2>3 DEF CacheGet
<1>11. CASE SelectBySession(p)
  <2>1. CASE Finish(p)
    BY <1>1, <1>11, <2>1 DEF SelectBySession, Dead
  <2>2. CASE Become(p, Handling("session_fill", proc[p].op, proc[p].sid, proc[p].jti,
                                Hydrate(row[proc[p].sid])))
    <3>1. Harmless(Handling("session_fill", proc[p].op, proc[p].sid, proc[p].jti,
                            Hydrate(row[proc[p].sid])), s)
      BY <1>0 DEF Harmless, Handling, Hydrate
    <3> QED
      BY <1>11, <2>2, <3>1, DeadKept DEF SelectBySession, Dead
  <2> QED
    BY <1>11, <2>1, <2>2 DEF SelectBySession
<1>12. CASE SessionFill(p)
  <2>1. /\ proc[p].snap \in Entry /\ Found(p, proc[p].snap) /\ row' = row
        /\ proc[p].sid = s => proc[p].snap.revoked
    BY <1>0, <1>12 DEF SessionFill, HandlerOK, Harmless
  <2>2. cache'[s] = None \/ cache'[s].revoked
    BY <1>0, <1>12, <2>1 DEF SessionFill, Dead
  <2> QED
    BY <1>9, <2>1, <2>2
<1>13. CASE RevokeReused(p)
  <2>1. proc[p].sid \in Sids
    BY <1>0, <1>13 DEF RevokeReused, HandlerOK
  <2> QED
    BY <1>13, <2>1, DeadRevoke DEF RevokeReused
<1>14. CASE \E i \in Sids : CacheInvalidate(p, i)
  <2> PICK i \in Sids : CacheInvalidate(p, i)
    BY <1>14
  <2>1. row' = row /\ (cache'[s] = None \/ cache'[s].revoked)
    BY <1>0 DEF CacheInvalidate, Dead
  <2>2. CASE Finish(p)
    BY <1>1, <2>1, <2>2
  <2>3. CASE proc' = [proc EXCEPT ![p].todo = @ \ {i}]
    <3>1. \A q \in Procs : /\ proc'[q].at = proc[q].at /\ proc'[q].sid = proc[q].sid
                           /\ proc'[q].snap = proc[q].snap
      BY <2>3 DEF IInv, TypeOK, Handler
    <3> QED
      BY <2>1, <3>1 DEF Dead, CacheInvalidate
  <2> QED
    BY <2>2, <2>3 DEF CacheInvalidate
<1> QED
  BY <1>3, <1>4, <1>5, <1>6, <1>7, <1>8, <1>10, <1>11, <1>12, <1>13, <1>14 DEF Step

\* No step brings back a session that is dead.
LEMMA DeadStaysDead == ASSUME IInv, [Next]_vars, NEW s \in Sids, Dead(s) PROVE Dead(s)'
<1>1. CASE GraceLapse \/ \E i \in Sids : CacheExpire(i)
  BY <1>1 DEF GraceLapse, CacheExpire, Dead, IInv, TypeOK
<1>2. CASE UNCHANGED vars
  BY <1>2 DEF vars, Dead
<1> QED
  BY <1>1, <1>2, DeadStart, DeadStep DEF Next

\* Revocation is final: whatever was in flight when a session died, and
\* whatever is replayed later, no request is ever accepted for it again.
THEOREM RevocationIsFinal == Spec => NoResurrection
<1>1. IInv /\ [Next]_vars => [\A s \in Sids : Dead(s) => Dead(s)']_vars
  BY DeadStaysDead
<1> QED
  BY <1>1, Invariance, PTL DEF Spec, NoResurrection

(***************************************************************************)
(* Sessions implements TokenFamily.  The invariant does the work: the      *)
(* members of a session's family are exactly the ids drawn for it          *)
(* (OwnedIsMember), so what a handler draws is new to every family, and    *)
(* what it answers with belongs to one.                                    *)
(***************************************************************************)
Unmoved == \A s \in Sids : Family(s)' = Family(s)

(***************************************************************************)
(* Families and owners.                                                    *)
(***************************************************************************)
LEMMA FamilyExists ==
  ASSUME IInv, NEW s \in Sids
  PROVE  (Family(s) = None) <=> (row[s] = None)
<1>1. CASE row[s] # None
  <2>1. row[s] \in Row
    BY <1>1 DEF IInv, TypeOK
  <2>2. [live |-> ~row[s].revoked, cur |-> row[s].cur, retired |-> RetiredOf(s)] \in F!FamilySet
    BY <2>1 DEF Row, F!FamilySet, RetiredOf
  <2> QED BY <1>1, <2>2, NoFamilyAssumption DEF Family
<1> QED BY <1>1 DEF Family

\* The members of a family are the ids the tables have of its session.
LEMMA MembersOfFamily ==
  ASSUME IInv, NEW s \in Sids
  PROVE  F!Members(Family(s)) =
           IF row[s] = None THEN {} ELSE {row[s].cur} \cup RetiredOf(s)
<1>1. CASE row[s] = None
  BY <1>1 DEF Family, F!Members
<1>2. CASE row[s] # None
  BY <1>2, FamilyExists DEF Family, F!Members
<1> QED BY <1>1, <1>2

\* They are the ids that were signed for the session.
LEMMA OwnedIsMember ==
  ASSUME IInv, NEW s \in Sids, NEW j \in Jtis
  PROVE  j \in F!Members(Family(s)) <=> owner[j] = s
<1> s # None
  BY NoneAssumption
<1>1. ASSUME owner[j] = s
      PROVE  j \in F!Members(Family(s))
  <2>1. row[s] # None
    BY <1>1 DEF IInv, OwnerHasRow
  <2>2. row[s].cur = j \/ history[j] = s
    BY <1>1 DEF IInv, RetiredInHistory
  <2> QED BY <2>1, <2>2, MembersOfFamily DEF RetiredOf
<1>2. ASSUME j \in F!Members(Family(s))
      PROVE  owner[j] = s
  <2>1. row[s] # None /\ (j = row[s].cur \/ history[j] = s)
    BY <1>2, MembersOfFamily DEF RetiredOf
  <2> QED BY <2>1 DEF IInv, RowOwnsCur, HistoryOwned
<1> QED BY <1>1, <1>2

\* TokenFamily has drawn an id exactly when an id was signed.
LEMMA DrawnIsOwned ==
  ASSUME IInv, NEW j \in Jtis
  PROVE  j \in F!Drawn <=> owner[j] # None
<1>1. j \in F!Drawn <=> \E s \in Sids : j \in F!Members(Family(s))
  BY DEF F!Drawn, Families
<1>2. owner[j] \in Sids \cup {None}
  BY DEF IInv, TypeOK
<1> QED BY <1>1, <1>2, OwnedIsMember, NoneAssumption

(***************************************************************************)
(* Steps that move no family.                                              *)
(***************************************************************************)
LEMMA UnmovedStutters ==
  ASSUME Unmoved, UNCHANGED delivered
  PROVE  [F!Next]_(F!vars)
BY DEF Unmoved, Families, F!vars

\* What leaves the tables alone stutters.
LEMMA SameTables ==
  ASSUME UNCHANGED <<row, history, delivered>>
  PROVE  [F!Next]_(F!vars)
<1>1. Unmoved
  BY DEF Unmoved, Family, RetiredOf
<1> QED BY <1>1, UnmovedStutters

\* Recording the id that is about to be rotated: it is still current, or
\* somebody has rotated it meanwhile and recorded it before.
LEMMA RecordStep ==
  ASSUME IInv, NEW p \in Procs, RecordRefreshRotation(p)
  PROVE  [F!Next]_(F!vars)
<1> DEFINE j == proc[p].jti
           s == proc[p].sid
<1>1. j \in Jtis /\ s \in Sids /\ owner[j] = s /\ s # None
  BY NoneAssumption DEF IInv, HandlersOK, HandlerOK, RecordRefreshRotation
<1>2. CASE UNCHANGED history
  BY <1>2, SameTables DEF RecordRefreshRotation
<1>3. CASE history[j] = None /\ history' = [history EXCEPT ![j] = s]
  <2>1. row[s] # None /\ row[s].cur = j
    BY <1>1, <1>3 DEF IInv, OwnerHasRow, RetiredInHistory
  <2>2. \A u \in Sids : RetiredOf(u)' = RetiredOf(u)
    <3> SUFFICES ASSUME NEW u \in Sids PROVE RetiredOf(u)' = RetiredOf(u)
      OBVIOUS
    <3>1. \A k \in Jtis \ {j} : history'[k] = history[k]
      BY <1>3 DEF IInv, TypeOK
    <3>2. j \notin RetiredOf(u)
      BY <1>3, NoneAssumption DEF RetiredOf
    <3>3. j \notin RetiredOf(u)'
      BY <1>1, <1>3, <2>1 DEF RetiredOf, RecordRefreshRotation, IInv, TypeOK
    <3>4. row' = row
      BY DEF RecordRefreshRotation
    <3> QED BY <3>1, <3>2, <3>3, <3>4 DEF RetiredOf
  <2>3. Unmoved
    BY <2>2 DEF Unmoved, Family, RecordRefreshRotation
  <2> QED BY <2>3, UnmovedStutters DEF RecordRefreshRotation
<1> QED BY <1>2, <1>3 DEF RecordRefreshRotation

(***************************************************************************)
(* Steps that move one.                                                    *)
(***************************************************************************)
LEMMA CreateStep ==
  ASSUME IInv, NEW p \in Procs, NEW s \in Sids, NEW j \in Jtis, NEW c \in Clients,
         Create(p, s, j, c)
  PROVE  F!Born(s, j)
<1>1. Families[s] = None /\ j \notin F!Drawn
  BY FamilyExists, DrawnIsOwned DEF Create, Families
<1>2. row'[s] = [cur |-> j, revoked |-> FALSE, client |-> c]
      /\ \A u \in Sids \ {s} : row'[u] = row[u]
  BY DEF Create, IInv, TypeOK
<1>3. row'[s] # None
  <2>1. row'[s] \in Row
    BY <1>2 DEF Row
  <2> QED BY <2>1, NoneAssumption
<1>4. RetiredOf(s)' = {}
  <2>1. \A k \in Jtis : history[k] # s
    BY NoneAssumption DEF IInv, HistoryOwned, OwnerHasRow, Create
  <2> QED BY <2>1 DEF RetiredOf, Create
<1>5. Family(s)' = [live |-> TRUE, cur |-> j, retired |-> {}]
  <2>1. (~row'[s].revoked) = TRUE /\ row'[s].cur = j
    BY <1>2
  <2> QED BY <1>3, <1>4, <2>1 DEF Family
<1>6. \A u \in Sids \ {s} : Family(u)' = Family(u)
  BY <1>2 DEF Create, Family, RetiredOf
<1>7. Families' = [Families EXCEPT ![s] = [live |-> TRUE, cur |-> j, retired |-> {}]]
  BY <1>5, <1>6 DEF Families
<1> QED BY <1>1, <1>7 DEF F!Born, Create

\* The UPDATE that replaces the current id moves the family on.
LEMMA RotateStep ==
  ASSUME IInv, NEW p \in Procs, NEW new \in Jtis, RotateRefresh(p, new)
  PROVE  \E s \in Sids : F!Rotate(s, new)
<1> DEFINE old == proc[p].jti
<1>1. PICK s \in Active(old) : row' = [row EXCEPT ![s].cur = new]
  BY DEF RotateRefresh
<1>2. s \in Sids /\ row[s] # None /\ row[s].cur = old /\ ~row[s].revoked /\ row[s] \in Row
  BY DEF Active, IInv, TypeOK
<1>3. row[s] = [cur |-> old, revoked |-> FALSE, client |-> row[s].client]
  BY <1>2 DEF Row
<1>4. /\ row'[s] \in Row /\ row'[s].cur = new
      /\ row'[s].revoked = row[s].revoked /\ row'[s].client = row[s].client
  BY <1>1, <1>2 DEF IInv, TypeOK, Row
<1>5. /\ row'[s] = [cur |-> new, revoked |-> FALSE, client |-> row[s].client]
      /\ \A u \in Sids \ {s} : row'[u] = row[u]
  <2>1. row'[s] = [cur |-> row'[s].cur, revoked |-> row'[s].revoked, client |-> row'[s].client]
    BY <1>4 DEF Row
  <2>2. \A u \in Sids \ {s} : row'[u] = row[u]
    BY <1>1, <1>2 DEF IInv, TypeOK
  <2>3. row'[s].revoked = FALSE
    BY <1>3, <1>4
  <2> QED BY <1>4, <2>1, <2>2, <2>3
<1>6. row'[s] # None
  <2>1. row'[s] \in Row
    BY <1>2, <1>5 DEF Row
  <2> QED BY <2>1, NoneAssumption
<1>7. old \in Jtis /\ history[old] = s /\ history[new] = None
  <2>1. old \in Jtis /\ owner[old] = s
    BY <1>2 DEF IInv, RowOwnsCur, Row
  <2>2. history[old] = proc[p].sid /\ owner[old] = proc[p].sid
    BY DEF RotateRefresh, IInv, HandlersOK, HandlerOK
  <2> QED BY <2>1, <2>2 DEF RotateRefresh, IInv, HistoryOwned
<1>8. RetiredOf(s)' = {old} \cup RetiredOf(s)
  BY <1>2, <1>5, <1>7, NoneAssumption DEF RetiredOf, RotateRefresh
<1>9. Family(s)' = [live |-> TRUE, cur |-> new, retired |-> F!Members(Family(s))]
  <2>1. F!Members(Family(s)) = RetiredOf(s)'
    BY <1>2, <1>8, MembersOfFamily
  <2>2. (~row'[s].revoked) = TRUE /\ row'[s].cur = new
    BY <1>5
  <2> QED BY <1>6, <2>1, <2>2 DEF Family
<1>10. \A u \in Sids \ {s} : Family(u)' = Family(u)
  BY <1>5 DEF RotateRefresh, Family, RetiredOf
<1>11. Families' = [Families EXCEPT ![s] =
                      [live |-> TRUE, cur |-> new, retired |-> F!Members(Families[s])]]
  BY <1>2, <1>9, <1>10 DEF Families
<1>12. Families[s] # None /\ Families[s].live
  BY <1>2, FamilyExists DEF Families, Family
<1>13. new \notin F!Drawn
  BY DrawnIsOwned DEF RotateRefresh
<1> QED BY <1>2, <1>11, <1>12, <1>13 DEF F!Rotate, RotateRefresh

\* An UPDATE that revokes rows ends their families.
LEMMA RevokeStep ==
  ASSUME IInv, NEW p \in Procs, NEW S \in SUBSET Sids, RevokeRows(p, S),
         \A s \in S : row[s] # None
  PROVE  F!Revoke(S)
<1>1. \A s \in S : Families[s] # None
  BY FamilyExists DEF Families
<1>2. ASSUME NEW s \in S
      PROVE  Family(s)' = [live |-> FALSE, cur |-> Family(s).cur, retired |-> Family(s).retired]
  <2>1. row[s] \in Row
    BY <1>2 DEF IInv, TypeOK
  <2>2. row'[s] = [cur |-> row[s].cur, revoked |-> TRUE, client |-> row[s].client]
    BY <1>2, <2>1 DEF RevokeRows, Row
  <2>3. row'[s] # None
    <3>1. row'[s] \in Row
      BY <2>1, <2>2 DEF Row
    <3> QED BY <3>1, NoneAssumption
  <2>4. RetiredOf(s)' = RetiredOf(s)
    BY <2>2 DEF RevokeRows, RetiredOf
  <2>5. Family(s)' = [live |-> FALSE, cur |-> row[s].cur, retired |-> RetiredOf(s)]
    <3>1. (~row'[s].revoked) = FALSE /\ row'[s].cur = row[s].cur
      BY <2>2
    <3> QED BY <2>3, <2>4, <3>1 DEF Family
  <2>6. Family(s) = [live |-> ~row[s].revoked, cur |-> row[s].cur, retired |-> RetiredOf(s)]
    BY DEF Family
  <2> QED BY <2>5, <2>6
<1>3. \A s \in Sids \ S : Family(s)' = Family(s)
  BY DEF RevokeRows, Family, RetiredOf
<1>4. Families' = [s \in Sids |->
                   IF s \in S THEN [live |-> FALSE, cur |-> Families[s].cur,
                                    retired |-> Families[s].retired]
                              ELSE Families[s]]
  BY <1>2, <1>3 DEF Families
<1> QED BY <1>1, <1>4 DEF F!Revoke, RevokeRows

\* An answer hands out the id that it read of its session, as that session's.
LEMMA ReplyStep ==
  ASSUME IInv, NEW p \in Procs, Reply(p)
  PROVE  \E s \in Sids, j \in Jtis : F!HandOut(s, j)
<1> DEFINE s == proc[p].sid
           j == proc[p].snap.cur
<1>1. s \in Sids /\ j \in Jtis /\ owner[j] = s
  BY DEF Reply, IInv, HandlersOK, HandlerOK, Entry
<1>2. j \in F!Members(Families[s])
  BY <1>1, OwnedIsMember DEF Families
<1>3. Families' = Families
  BY DEF Reply, Families, Family, RetiredOf
<1>4. delivered' = delivered \cup {<<s, j>>}
  BY DEF Reply
<1> HIDE DEF s, j
<1> QED BY <1>1, <1>2, <1>3, <1>4 DEF F!HandOut

(***************************************************************************)
(* The refinement.                                                         *)
(***************************************************************************)
LEMMA InitRefines == Init => F!Init
BY DEF Init, F!Init, Families, Family

\* Every revocation: by token, of a client's sessions, for reuse.
LEMMA RevocationsRefine ==
  ASSUME IInv, NEW p \in Procs,
         \/ \E s \in Sids : Revoke(p, s)
         \/ \E c \in Clients : RevokeByClient(p, c)
         \/ RevokeReused(p)
  PROVE  F!Next
<1>1. CASE \E s \in Sids : Revoke(p, s)
  <2> PICK s \in Sids : Revoke(p, s)
    BY <1>1
  <2>1. row[s] # None
    BY NoneAssumption DEF Revoke, Delivered, IInv, TypeOK, OwnerHasRow, DeliveredOwned
  <2>2. F!Revoke({s})
    BY <2>1, RevokeStep DEF Revoke
  <2> QED BY <2>2 DEF F!Next
<1>2. CASE \E c \in Clients : RevokeByClient(p, c)
  <2> PICK c \in Clients : RevokeByClient(p, c)
    BY <1>2
  <2>1. F!Revoke({s \in Sids : row[s] # None /\ row[s].client = c /\ ~row[s].revoked})
    BY RevokeStep DEF RevokeByClient
  <2> QED BY <2>1 DEF F!Next
<1>3. CASE RevokeReused(p)
  <2>1. proc[p].sid \in Sids /\ row[proc[p].sid] # None
    BY <1>3 DEF RevokeReused, IInv, HandlersOK, HandlerOK, Past, OwnerHasRow
  <2>2. F!Revoke({proc[p].sid})
    BY <1>3, <2>1, RevokeStep DEF RevokeReused
  <2> QED BY <2>1, <2>2 DEF F!Next
<1> QED BY <1>1, <1>2, <1>3

\* Every step of Sessions is one of TokenFamily or a stutter.
LEMMA StepRefines == IInv /\ [Next]_vars => [F!Next]_(F!vars)
<1> SUFFICES ASSUME IInv, [Next]_vars PROVE [F!Next]_(F!vars)
  OBVIOUS
<1>1. ASSUME NEW p \in Procs, Start(p)
      PROVE  [F!Next]_(F!vars)
  <2>1. CASE \E s \in Sids, j \in Jtis, c \in Clients : Create(p, s, j, c)
    BY <2>1, CreateStep DEF F!Next
  <2>2. CASE \/ \E j \in Jtis : FindByRefresh(p, j)
             \/ \E s \in Sids : Access(p, s)
    BY <2>2, SameTables DEF FindByRefresh, Access
  <2> QED BY <1>1, <2>1, <2>2, RevocationsRefine DEF Start
<1>2. ASSUME NEW p \in Procs, Step(p)
      PROVE  [F!Next]_(F!vars)
  <2>1. CASE \/ CreateFill(p) \/ FindFill(p) \/ RotateFill(p) \/ RotateMiss(p)
             \/ FindRefreshHistory(p) \/ CacheGet(p) \/ SelectBySession(p) \/ SessionFill(p)
             \/ \E s \in Sids : CacheInvalidate(p, s)
    BY <2>1, SameTables
    DEF CreateFill, FindFill, RotateFill, Fill, RotateMiss, FindRefreshHistory, CacheGet,
        SelectBySession, SessionFill, CacheInvalidate
  <2>2. CASE \E new \in Jtis : RotateRefresh(p, new)
    BY <2>2, RotateStep DEF F!Next
  <2>3. CASE Reply(p)
    BY <2>3, ReplyStep DEF F!Next
  <2> QED BY <1>2, <2>1, <2>2, <2>3, RecordStep, RevocationsRefine DEF Step
<1>3. ASSUME NEW p \in Procs, Fail(p)
      PROVE  [F!Next]_(F!vars)
  BY <1>3, SameTables DEF Fail
<1>4. CASE GraceLapse \/ \E s \in Sids : CacheExpire(s)
  BY <1>4, SameTables DEF GraceLapse, CacheExpire
<1>5. CASE UNCHANGED vars
  BY <1>5, SameTables DEF vars
<1> QED BY <1>1, <1>2, <1>3, <1>4, <1>5 DEF Next

\* Seen through its two tables, the server does to refresh-token chains only
\* what TokenFamily promises (sessionRepo.ts, token.ts).
THEOREM Refinement == Spec => ImplementsTokenFamily
<1>1. IInv /\ [Next]_vars => [F!Next]_(F!vars)
  BY StepRefines
<1> QED BY <1>1, InitRefines, Invariance, PTL DEF Spec, ImplementsTokenFamily, F!Spec
=============================================================================
