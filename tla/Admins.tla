-------------------------------- MODULE Admins --------------------------------
(***************************************************************************)
(* The back office's administrators (repos/adminRepo.ts, the /admins       *)
(* routes of routes/adminWeb.ts) and their session cookies, which are      *)
(* signed and kept nowhere (middleware/adminSession.ts): a cookie is good  *)
(* until it expires, whatever becomes of the row.                          *)
(***************************************************************************)
EXTENDS Naturals, FiniteSets

CONSTANTS Ids,       \* admins.id values the sequence hands out
          Names,     \* usernames
          Requests,  \* DELETE and password handlers in progress at once
          None

IdsAssumption == None \notin Ids \cup Names /\ IsFiniteSet(Ids) /\ Ids # {} /\ Names # {}

VARIABLES
  name,     \* admins.username by id, None without a row
  unused,   \* ids the sequence has not handed out yet
  cookies,  \* valid cookies: what was signed into them, [id, name]
  req,      \* the handlers: [op, id, proof], or None
  raced,    \* history: two deletions were past their count at the same time
  renamed   \* history: ids renamed while some cookie of theirs kept the old name

vars == <<name, unused, cookies, req, raced, renamed>>

Cookie(i, n) == [id |-> i, name |-> n]

\* `proof' is whose password a change of password was let through with.
Request(op, i, proof) == [op |-> op, id |-> i, proof |-> proof]

admins == {i \in Ids : name[i] # None}
Taken(n) == \E i \in Ids : name[i] = n

TypeOK ==
  /\ name \in [Ids -> Names \cup {None}]
  /\ \A i, j \in admins : name[i] = name[j] => i = j
  /\ unused \subseteq Ids \ admins
  /\ cookies \subseteq [id : Ids, name : Names]
  /\ req \in [Requests -> [op : {"delete", "password"}, id : Ids, proof : Ids \cup {None}] \cup {None}]
  /\ raced \in BOOLEAN
  /\ renamed \subseteq Ids

\* scripts/create-admin.ts has made the first one.
Init ==
  /\ \E first \in Ids, n \in Names :
       /\ name = [i \in Ids |-> IF i = first THEN n ELSE None]
       /\ unused = Ids \ {first}
  /\ cookies = {}
  /\ req = [r \in Requests |-> None]
  /\ raced = FALSE
  /\ renamed = {}

\* POST /login
Login(i) ==
  /\ i \in admins
  /\ cookies' = cookies \cup {Cookie(i, name[i])}
  /\ UNCHANGED <<name, unused, req, raced, renamed>>

\* POST /logout clears one browser's copy, and maxAge passes.
CookieGone(c) ==
  /\ c \in cookies
  /\ cookies' = cookies \ {c}
  /\ UNCHANGED <<name, unused, req, raced, renamed>>

\* Mutant: an id is handed out and stays available.
CreateReusing(i, n) ==
  /\ cookies # {}
  /\ i \in unused /\ ~Taken(n)
  /\ name' = [name EXCEPT ![i] = n]
  /\ UNCHANGED <<unused, cookies, req, raced, renamed>>

\* POST /admins: requireAdminSession looks only at the cookie; a username that
\* is taken is a 409.
Create(i, n) ==
  /\ cookies # {}
  /\ i \in unused /\ ~Taken(n)
  /\ name' = [name EXCEPT ![i] = n]
  /\ unused' = unused \ {i}
  /\ UNCHANGED <<cookies, req, raced, renamed>>

\* Mutant: the cookie is not signed again after renaming oneself.
RenameOnly(c, i, n) ==
  /\ c \in cookies /\ i \in admins /\ ~Taken(n)
  /\ name' = [name EXCEPT ![i] = n]
  /\ renamed' = IF i = c.id THEN renamed ELSE renamed \cup {i}
  /\ UNCHANGED <<unused, cookies, req, raced>>

\* POST /admins/:id/rename.  Renaming oneself signs a new cookie for this
\* browser; a copy of the old one in another browser remains.
Rename(c, i, n) ==
  /\ c \in cookies /\ i \in admins /\ ~Taken(n)
  /\ name' = [name EXCEPT ![i] = n]
  /\ \/ /\ i # c.id
        /\ renamed' = renamed \cup {i}
        /\ UNCHANGED cookies
     \/ /\ i = c.id
        /\ \/ cookies' = (cookies \ {c}) \cup {Cookie(i, n)} /\ UNCHANGED renamed
           \/ cookies' = cookies \cup {Cookie(i, n)} /\ renamed' = renamed \cup {i}
  /\ UNCHANGED <<unused, req, raced>>

Await(r, op, i, proof) == req' = [req EXCEPT ![r] = Request(op, i, proof)]
Deleting == {r \in Requests : req[r] # None /\ req[r].op = "delete"}

\* Mutant: without the count.
CheckDeleteUncounted(r, c, i) ==
  /\ req[r] = None
  /\ c \in cookies /\ c.id # i
  /\ Await(r, "delete", i, None)
  /\ raced' = (raced \/ Deleting # {})
  /\ UNCHANGED <<name, unused, cookies, renamed>>

\* DELETE /admins/:id up to the SELECT count(*): not oneself, not the last.
CheckDelete(r, c, i) ==
  /\ req[r] = None
  /\ c \in cookies /\ c.id # i
  /\ Cardinality(admins) > 1
  /\ Await(r, "delete", i, None)
  /\ raced' = (raced \/ Deleting # {})
  /\ UNCHANGED <<name, unused, cookies, renamed>>

\* POST /admins/:id/password for oneself: the old password is verified against
\* the row that has the cookie's username now.  (Setting somebody else's asks
\* for no password and is one statement, of which nothing is kept here.)
CheckPassword(r, c, k) ==
  /\ req[r] = None
  /\ c \in cookies /\ name[k] = c.name
  /\ Await(r, "password", c.id, k)
  /\ UNCHANGED <<name, unused, cookies, raced, renamed>>

\* The statement that follows: DELETE, or the UPDATE of the password.
Execute(r) ==
  /\ req[r] # None
  /\ name' = IF req[r].op = "delete" THEN [name EXCEPT ![req[r].id] = None] ELSE name
  /\ req' = [req EXCEPT ![r] = None]
  /\ UNCHANGED <<unused, cookies, raced, renamed>>

\* A failure before it.
Abort(r) ==
  /\ req[r] # None
  /\ req' = [req EXCEPT ![r] = None]
  /\ UNCHANGED <<name, unused, cookies, raced, renamed>>

Session ==
  \/ \E i \in Ids : Login(i)
  \/ \E c \in cookies : CookieGone(c)

Manage ==
  \/ \E i \in Ids, n \in Names : Create(i, n) \/ \E c \in cookies : Rename(c, i, n)
  \/ \E r \in Requests, c \in cookies, i \in Ids : CheckDelete(r, c, i) \/ CheckPassword(r, c, i)
  \/ \E r \in Requests : Execute(r) \/ Abort(r)

(***************************************************************************)
(* Properties.                                                             *)
(***************************************************************************)
\* adminWeb.ts:640: at least one administrator is kept, or nobody could log in
\* to the back office any more.
AtLeastOneAdmin == admins # {}

\* The check before the DELETE does keep one as long as two deletions do not
\* pass it together, whoever is created, logs out or sends the request.
LastAdminKept == raced \/ AtLeastOneAdmin

\* Who changes the own password has given the own old one (adminWeb.ts:556, 568),
\* although it is looked up by the username in the cookie and set by the id:
\* unless the administrator was renamed behind that cookie's back, and somebody
\* else has taken the name since.  A row that is gone has no password to change.
OldPasswordIsOwn ==
  \A r \in Requests :
    req[r] # None /\ req[r].op = "password" /\ req[r].id \in admins =>
      req[r].proof = req[r].id \/ req[r].id \in renamed
=============================================================================
