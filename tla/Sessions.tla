------------------------------ MODULE Sessions ------------------------------
(***************************************************************************)
(* Login sessions, their refresh-token chains and the Redis copy of the    *)
(* session rows (apps/server/src/repos/sessionRepo.ts, sessionStore.ts,    *)
(* routes/token.ts, routes/revoke.ts, routes/userInfo.ts).                 *)
(*                                                                         *)
(* Postgres is the authority, Redis a read-through copy with a TTL, and    *)
(* every `await` of a request handler is a point where the other handlers  *)
(* (of this server or of another instance) may run.  Each action below is  *)
(* therefore ONE statement on Postgres or ONE command on Redis, with the   *)
(* code that surrounds it up to the next await.  A handler may also stop   *)
(* at any await: the statement throws (HTTP 500) or the process dies.      *)
(*                                                                         *)
(* Time appears only through the two delays the code compares with: the    *)
(* cache TTL (CacheExpire) and the grace window of reuse detection, kept   *)
(* as the sequence `window' of the refresh ids whose rotated_at is less    *)
(* than REFRESH_REUSE_GRACE_SEC old, oldest first.                         *)
(***************************************************************************)
EXTENDS Naturals, Sequences, FiniteSets

CONSTANTS Sids,       \* session ids, random and never drawn twice
          Jtis,       \* refresh ids, likewise
          Clients,    \* OAuth clients
          Procs,      \* request handlers that may be in progress at once
          None,       \* JavaScript's null, and an absent row or key
          CanFail     \* whether a handler may stop half-way

\* A row of `sessions', and what of it the cached JSON is asked for.
Row   == [cur : Jtis, revoked : BOOLEAN, client : Clients]
Entry == [cur : Jtis, revoked : BOOLEAN]

ASSUME NoneAssumption == None \notin Sids \cup Jtis \cup Row \cup Entry
ASSUME CanFailAssumption == CanFail \in BOOLEAN

VARIABLES
  row,        \* Postgres: sessions, by session id
  history,    \* Postgres: refresh_token_history, jti -> session id
  cache,      \* Redis: session:<sid>
  proc,       \* the handlers in progress
  owner,      \* the session each jti was drawn for
  delivered,  \* the tokens that have reached a client: <<sub, jti>>
  window      \* the jtis recorded in the last 30 seconds, oldest first

vars == <<row, history, cache, proc, owner, delivered, window>>

Ops == {"none", "login", "refresh", "grace", "access", "revoke"}
PCs == {"idle", "create_fill", "find_fill", "record", "rotate", "rotate_fill",
        "history", "get", "select", "session_fill", "reply", "reuse", "del"}

\* A handler: where it is, for whom, the refresh id presented to it, the row
\* it holds in a local variable, and the cache keys it still has to delete.
Handler == [at : PCs, op : Ops, sid : Sids \cup {None}, jti : Jtis \cup {None},
            snap : Entry \cup {None}, todo : SUBSET Sids]
Handling(pc, op, s, j, snap) ==
  [at |-> pc, op |-> op, sid |-> s, jti |-> j, snap |-> snap, todo |-> {}]
Deleting(S) ==
  [at |-> "del", op |-> "revoke", sid |-> None, jti |-> None, snap |-> None, todo |-> S]
Idle == Handling("idle", "none", None, None, None)

TypeOK ==
  /\ row \in [Sids -> Row \cup {None}]
  /\ history \in [Jtis -> Sids \cup {None}]
  /\ cache \in [Sids -> Entry \cup {None}]
  /\ proc \in [Procs -> Handler]
  /\ owner \in [Jtis -> Sids \cup {None}]
  /\ delivered \in SUBSET (Sids \X Jtis)
  /\ window \in Seq(Jtis)

Init ==
  /\ row = [s \in Sids |-> None]
  /\ history = [j \in Jtis |-> None]
  /\ cache = [s \in Sids |-> None]
  /\ proc = [p \in Procs |-> Idle]
  /\ owner = [j \in Jtis |-> None]
  /\ delivered = {}
  /\ window = <<>>

(***************************************************************************)
(* Helpers.                                                                *)
(***************************************************************************)
Become(p, h) == proc' = [proc EXCEPT ![p] = h]
Goto(p, pc) == proc' = [proc EXCEPT ![p].at = pc]
Finish(p) == Become(p, Idle)
\* Mutant: hydrate keeps a column of the row that SessionData does not have.
HydrateRaw(r) == r

\* hydrate: the columns a handler keeps of a row.
Hydrate(r) == [cur |-> r.cur, revoked |-> r.revoked]
\* Mutant: the WHERE clause forgets `revoked = false'.
ActiveOrRevoked(j) == {s \in Sids : row[s] # None /\ row[s].cur = j}

\* SELECT ... WHERE refresh_id = j AND NOT revoked.
Active(j) == {s \in Sids : row[s] # None /\ row[s].cur = j /\ ~row[s].revoked}

Recent(j) == \E i \in DOMAIN window : window[i] = j

\* Somebody holds a token of session s.
Delivered(s) == \E j \in Jtis : <<s, j>> \in delivered

\* The bound on refresh ids: a handler that may rotate keeps one in reserve.
Fresh == {j \in Jtis : owner[j] = None}
Rotating == {p \in Procs : proc[p].at \in {"find_fill", "record", "rotate"}}
HasSpare == Cardinality(Rotating) < Cardinality(Fresh)

(***************************************************************************)
(* createSession / createMachineSession: INSERT, then SET session:<sid>.   *)
(***************************************************************************)
Create(p, s, j, c) ==
  /\ proc[p].at = "idle" /\ row[s] = None /\ owner[j] = None /\ HasSpare
  /\ row' = [row EXCEPT ![s] = [cur |-> j, revoked |-> FALSE, client |-> c]]
  /\ owner' = [owner EXCEPT ![j] = s]
  /\ Become(p, Handling("create_fill", "login", s, None, [cur |-> j, revoked |-> FALSE]))
  /\ UNCHANGED <<history, cache, delivered, window>>

\* cacheSet(data): the copy written is the row as the handler read it.
Fill(p, pc) ==
  /\ cache' = [cache EXCEPT ![proc[p].sid] = proc[p].snap]
  /\ Goto(p, pc)
  /\ UNCHANGED <<row, history, owner, delivered, window>>

CreateFill(p) == proc[p].at = "create_fill" /\ Fill(p, "reply")

(***************************************************************************)
(* The refresh grant: find by refresh id, record the old id, rotate.       *)
(***************************************************************************)
\* Mutant: the history is asked before the row, as if a recorded token were
\* certainly rotated away.
FindHistoryFirst(p, j) ==
  /\ proc[p].at = "idle" /\ \E s \in Sids : <<s, j>> \in delivered
  /\ \/ \E s \in Active(j) :
          /\ HasSpare /\ history[j] = None
          /\ Become(p, Handling("find_fill", "refresh", s, j, Hydrate(row[s])))
     \/ /\ Active(j) = {} \/ history[j] # None
        /\ Become(p, Handling("history", "refresh", None, j, None))
  /\ UNCHANGED <<row, history, cache, owner, delivered, window>>

FindByRefresh(p, j) ==
  /\ proc[p].at = "idle" /\ \E s \in Sids : <<s, j>> \in delivered
  /\ \/ \E s \in Active(j) :
          /\ HasSpare
          /\ Become(p, Handling("find_fill", "refresh", s, j, Hydrate(row[s])))
     \/ /\ Active(j) = {}
        /\ Become(p, Handling("history", "refresh", None, j, None))
  /\ UNCHANGED <<row, history, cache, owner, delivered, window>>
\* Mutant: the rotation does not record the old refresh id.
FindFillNoRecord(p) == proc[p].at = "find_fill" /\ Fill(p, "rotate")

FindFill(p) == proc[p].at = "find_fill" /\ Fill(p, "record")

\* INSERT ... ON CONFLICT DO NOTHING: the first recording keeps its time.
RecordRefreshRotation(p) ==
  LET j == proc[p].jti IN
  /\ proc[p].at = "record"
  /\ \/ /\ history[j] = None
        /\ history' = [history EXCEPT ![j] = proc[p].sid]
        /\ window' = Append(window, j)
     \/ /\ history[j] # None
        /\ UNCHANGED <<history, window>>
  /\ Goto(p, "rotate")
  /\ UNCHANGED <<row, cache, owner, delivered>>
\* Mutant: WHERE session_id = ... instead of WHERE refresh_id = old.
RotateBySession(p, new) ==
  LET s == proc[p].sid IN
  /\ proc[p].at = "rotate" /\ owner[new] = None /\ ~row[s].revoked
  /\ row' = [row EXCEPT ![s].cur = new]
  /\ owner' = [owner EXCEPT ![new] = s]
  /\ Become(p, Handling("rotate_fill", "refresh", s, proc[p].jti, Hydrate(row'[s])))
  /\ UNCHANGED <<history, cache, delivered, window>>

\* UPDATE ... SET refresh_id = new WHERE refresh_id = old AND NOT revoked.
RotateRefresh(p, new) ==
  LET old == proc[p].jti IN
  /\ proc[p].at = "rotate" /\ owner[new] = None
  /\ \E s \in Active(old) :
       /\ row' = [row EXCEPT ![s].cur = new]
       /\ owner' = [owner EXCEPT ![new] = s]
       /\ Become(p, Handling("rotate_fill", "refresh", s, old, Hydrate(row'[s])))
  /\ UNCHANGED <<history, cache, delivered, window>>

\* The UPDATE matched no row: another handler rotated or revoked meanwhile.
RotateMiss(p) ==
  /\ proc[p].at = "rotate" /\ Active(proc[p].jti) = {}
  /\ Become(p, Handling("history", "refresh", None, proc[p].jti, None))
  /\ UNCHANGED <<row, history, cache, owner, delivered, window>>

RotateFill(p) == proc[p].at = "rotate_fill" /\ Fill(p, "reply")

\* handleGraceOrReuse: unknown id, retry within the window, or reuse.
FindRefreshHistory(p) ==
  LET j == proc[p].jti IN
  /\ proc[p].at = "history"
  /\ \/ /\ history[j] = None
        /\ Finish(p)
     \/ /\ history[j] # None /\ Recent(j)
        /\ Become(p, Handling("get", "grace", history[j], j, None))
     \/ /\ history[j] # None /\ ~Recent(j)
        /\ Become(p, Handling("reuse", "refresh", history[j], j, None))
  /\ UNCHANGED <<row, history, cache, owner, delivered, window>>

\* issueTokenResponse reaches the client.
Reply(p) ==
  /\ proc[p].at = "reply"
  /\ delivered' = delivered \cup {<<proc[p].sid, proc[p].snap.cur>>}
  /\ Finish(p)
  /\ UNCHANGED <<row, history, cache, owner, window>>

(***************************************************************************)
(* findBySession: GET, on a miss SELECT and SET.  Called by the grace path *)
(* and by every request that carries an access token (gateway, user_info). *)
(***************************************************************************)
Access(p, s) ==
  /\ proc[p].at = "idle" /\ Delivered(s)
  /\ Become(p, Handling("get", "access", s, None, None))
  /\ UNCHANGED <<row, history, cache, owner, delivered, window>>

\* What findBySession's caller does with the session e it got.
Found(p, e) ==
  IF proc[p].op = "grace" /\ ~e.revoked
    THEN Become(p, Handling("reply", "grace", proc[p].sid, proc[p].jti, e))
    ELSE Finish(p)

CacheGet(p) ==
  LET s == proc[p].sid IN
  /\ proc[p].at = "get"
  /\ \/ cache[s] # None /\ Found(p, cache[s])
     \/ cache[s] = None /\ Goto(p, "select")
  /\ UNCHANGED <<row, history, cache, owner, delivered, window>>

SelectBySession(p) ==
  LET s == proc[p].sid IN
  /\ proc[p].at = "select"
  /\ \/ /\ row[s] # None
        /\ Become(p, Handling("session_fill", proc[p].op, s, proc[p].jti, Hydrate(row[s])))
     \/ row[s] = None /\ Finish(p)
  /\ UNCHANGED <<row, history, cache, owner, delivered, window>>

SessionFill(p) ==
  /\ proc[p].at = "session_fill"
  /\ cache' = [cache EXCEPT ![proc[p].sid] = proc[p].snap]
  /\ Found(p, proc[p].snap)
  /\ UNCHANGED <<row, history, owner, delivered, window>>

(***************************************************************************)
(* Revocation: UPDATE the rows, then DEL their cache keys one by one (in   *)
(* any order: revokeByClient sends the DELs together).                     *)
(***************************************************************************)
RevokeRows(p, S) ==
  /\ row' = [s \in Sids |-> IF s \in S THEN [row[s] EXCEPT !.revoked = TRUE] ELSE row[s]]
  /\ Become(p, IF S = {} THEN Idle ELSE Deleting(S))
  /\ UNCHANGED <<history, cache, owner, delivered, window>>

\* POST /revoke with a token of session s.
Revoke(p, s) ==
  /\ proc[p].at = "idle" /\ Delivered(s)
  /\ RevokeRows(p, {s})

\* The sessions of a client are kicked, or the client is deleted.
RevokeByClient(p, c) ==
  /\ proc[p].at = "idle"
  /\ RevokeRows(p, {s \in Sids : row[s] # None /\ row[s].client = c /\ ~row[s].revoked})

\* Past the window: the refresh token leaked, the session is revoked.
RevokeReused(p) ==
  /\ proc[p].at = "reuse"
  /\ RevokeRows(p, {proc[p].sid})

CacheInvalidate(p, s) ==
  /\ proc[p].at = "del" /\ s \in proc[p].todo
  /\ cache' = [cache EXCEPT ![s] = None]
  /\ IF proc[p].todo = {s} THEN Finish(p)
                           ELSE proc' = [proc EXCEPT ![p].todo = @ \ {s}]
  /\ UNCHANGED <<row, history, owner, delivered, window>>

(***************************************************************************)
(* The environment.                                                        *)
(***************************************************************************)
\* Mutant: SET without EX.
CacheForever(s) ==
  /\ cache[s] # None /\ FALSE
  /\ UNCHANGED vars

\* EX 300 (and the DEL of updateCompanyToken, which may come at any time).
CacheExpire(s) ==
  /\ cache[s] # None
  /\ cache' = [cache EXCEPT ![s] = None]
  /\ UNCHANGED <<row, history, proc, owner, delivered, window>>

\* The oldest recording of the window becomes older than the grace period.
GraceLapse ==
  /\ window # <<>>
  /\ window' = Tail(window)
  /\ UNCHANGED <<row, history, cache, proc, owner, delivered>>

\* A statement throws or the process dies: the handler does nothing more.
Fail(p) ==
  /\ CanFail /\ proc[p].at # "idle"
  /\ Finish(p)
  /\ UNCHANGED <<row, history, cache, owner, delivered, window>>

\* The next await of a handler in progress.
Step(p) ==
  \/ CreateFill(p)
  \/ FindFill(p)
  \/ RecordRefreshRotation(p)
  \/ \E new \in Jtis : RotateRefresh(p, new)
  \/ RotateMiss(p)
  \/ RotateFill(p)
  \/ FindRefreshHistory(p)
  \/ Reply(p)
  \/ CacheGet(p)
  \/ SelectBySession(p)
  \/ SessionFill(p)
  \/ RevokeReused(p)
  \/ \E s \in Sids : CacheInvalidate(p, s)

\* A request arrives.
Start(p) ==
  \/ \E s \in Sids, j \in Jtis, c \in Clients : Create(p, s, j, c)
  \/ \E j \in Jtis : FindByRefresh(p, j)
  \/ \E s \in Sids : Access(p, s)
  \/ \E c \in Clients : RevokeByClient(p, c)
  \/ \E s \in Sids : Revoke(p, s)

Next ==
  \/ \E p \in Procs : Start(p) \/ Step(p) \/ Fail(p)
  \/ \E s \in Sids : CacheExpire(s)
  \/ GraceLapse

Spec == Init /\ [][Next]_vars

\* A server keeps running the handlers it accepted, and Redis its TTLs.
Fairness ==
  /\ \A p \in Procs : WF_vars(Step(p))
  /\ \A s \in Sids : WF_vars(CacheExpire(s))

FairSpec == Spec /\ Fairness

(***************************************************************************)
(* Properties.                                                             *)
(***************************************************************************)
\* Every refresh id that was once given to a session and is no longer its
\* current one is in refresh_token_history under that session, whatever
\* handler stopped where: handleGraceOrReuse can always tell a replayed
\* token from an invented one, and revokes the right session.
RetiredInHistory ==
  \A j \in Jtis : owner[j] # None =>
    \/ row[owner[j]].cur = j
    \/ history[j] = owner[j]

\* Of the requests that present one refresh id at the same time at most one
\* ends with a rotation; the others fall through to the grace path.
OneRotationPerToken ==
  \A p, q \in Procs :
    /\ proc[p].op = "refresh" /\ proc[p].at \in {"rotate_fill", "reply"}
    /\ proc[q].op = "refresh" /\ proc[q].at \in {"rotate_fill", "reply"}
    /\ proc[p].jti = proc[q].jti
    => p = q

\* The reuse branch of handleGraceOrReuse only ever revokes a session for a
\* token that session has already rotated away (or that is revoked anyway):
\* a client that presents its current token is never taken for a thief.
ReuseOnlyOfRetired ==
  \A p \in Procs : proc[p].at = "reuse" =>
    LET r == row[proc[p].sid] IN r.revoked \/ r.cur # proc[p].jti

\* A revoked session that no handler is about to serve or to re-cache.
Dead(s) ==
  /\ row[s] # None /\ row[s].revoked
  /\ cache[s] = None \/ cache[s].revoked
  /\ \A p \in Procs : proc[p].sid = s =>
       /\ proc[p].at \notin {"rotate_fill", "reply"}
       /\ proc[p].at \in {"create_fill", "find_fill", "session_fill"} => proc[p].snap.revoked

\* A dead session stays dead: no request, retry, late cache fill or half-done
\* handler makes findBySession accept it or issues it a token again.
NoResurrection == [][\A s \in Sids : Dead(s) => Dead(s)']_vars

\* Every revocation takes effect in the end, even when the revoking handler
\* stopped between the UPDATE and the DEL: the TTL removes the stale copy.
RevocationTakesEffect ==
  \A s \in Sids : (row[s] # None /\ row[s].revoked) ~> Dead(s)

\* What adminWeb.ts:191 says of a kick, the same UPDATE and DEL as any other
\* revocation: the old access tokens, those that clients held while the session
\* was live, become invalid at once, that is as soon as the revoking handler is
\* done.
Revoked(s) == row[s] # None /\ row[s].revoked /\ \A p \in Procs : s \notin proc[p].todo
RevocationImmediate ==
  \A s \in Sids :
    [](row[s] # None /\ ~row[s].revoked /\ Delivered(s) =>
         [](Revoked(s) => cache[s] = None \/ cache[s].revoked))

\* What sessionRepo.ts:243-245 says of recording a rotation: it may be done
\* before or after rotateRefresh, the two are independent.  Then the time it
\* stores is the time of the rotation: a token that is still current, and that
\* nobody is rotating just now, is never recorded as rotated long ago (for
\* once it is rotated, an honest retry within the grace period is answered
\* with the revocation of the session).
GraceStartsAtRotation ==
  \A s \in Sids :
    row[s] # None /\ ~row[s].revoked /\ history[row[s].cur] # None =>
      \/ Recent(row[s].cur)
      \/ \E p \in Procs : proc[p].at = "rotate" /\ proc[p].jti = row[s].cur
=============================================================================
