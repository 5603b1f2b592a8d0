----------------------------- MODULE AdminsProofs -----------------------------
(***************************************************************************)
(* The two hazards of Admins for any ids, names and handlers.              *)
(*                                                                         *)
(* Cookies are kept nowhere, so what makes a stale one harmless is that an *)
(* id is never handed out twice and a name belongs to one row: a cookie    *)
(* and a pending change of password name an id that has been handed out,   *)
(* and until that administrator is renamed elsewhere, the row that has the *)
(* cookie's username is its own.  For the last administrator: as long as   *)
(* deletions do not race, at most one has passed the count, and somebody   *)
(* else was there then and still is.                                       *)
(***************************************************************************)
EXTENDS Admins, FiniteSetTheorems, TLAPS

Pending(r, op) == req[r] # None /\ req[r].op = op

CookiesKnown ==
  \A c \in cookies :
    /\ c.id \notin unused
    /\ c.id \in admins => name[c.id] = c.name \/ c.id \in renamed

PasswordsOwn ==
  \A r \in Requests : Pending(r, "password") =>
    /\ req[r].id \notin unused
    /\ req[r].id \in admins => req[r].proof = req[r].id \/ req[r].id \in renamed

OthersRemain ==
  ~raced =>
    /\ admins # {}
    /\ \A r, q \in Deleting : r = q
    /\ \A r \in Deleting : \E j \in admins : j # req[r].id

AdminsInv == TypeOK /\ CookiesKnown /\ PasswordsOwn /\ OthersRemain

\* The seeded administrator alone.
LEMMA InitAdmins == IdsAssumption /\ Init => AdminsInv
<1> SUFFICES ASSUME IdsAssumption, Init PROVE AdminsInv
  OBVIOUS
<1>1. PICK first \in Ids, n \in Names :
        /\ name = [i \in Ids |-> IF i = first THEN n ELSE None]
        /\ unused = Ids \ {first}
  BY DEF Init
<1>2. n # None
  BY DEF IdsAssumption
<1>3. admins = {first}
  BY <1>1, <1>2 DEF admins
<1>4. TypeOK
  BY <1>1, <1>2, <1>3 DEF Init, TypeOK
<1>5. CookiesKnown /\ PasswordsOwn
  BY DEF Init, CookiesKnown, PasswordsOwn, Pending
<1>6. OthersRemain
  BY <1>3 DEF Init, OthersRemain, Deleting
<1> QED BY <1>4, <1>5, <1>6 DEF AdminsInv

\* The count: with more than one row there is another one.
LEMMA AnotherOne ==
  ASSUME NEW S, IsFiniteSet(S), NEW i, Cardinality(S) > 1
  PROVE  \E j \in S : j # i
<1> SUFFICES ASSUME \A j \in S : j = i PROVE FALSE
  OBVIOUS
<1>1. S \subseteq {i}
  OBVIOUS
<1>2. IsFiniteSet({i}) /\ Cardinality({i}) = 1
  BY FS_Singleton
<1>3. Cardinality(S) <= 1
  BY <1>1, <1>2, FS_Subset
<1>4. Cardinality(S) \in Nat
  BY FS_CardinalityType
<1> QED BY <1>3, <1>4

\* Logging in and losing a cookie: a cookie names whoever had the name.
LEMMA SessionAdmins ==
  ASSUME IdsAssumption, AdminsInv, Session
  PROVE  AdminsInv'
<1> USE DEF AdminsInv
<1>1. ASSUME NEW i \in Ids, Login(i)
      PROVE  AdminsInv'
  <2>1. TypeOK'
    BY <1>1 DEF Login, Cookie, TypeOK, admins
  <2>2. CookiesKnown'
    BY <1>1 DEF Login, Cookie, TypeOK, CookiesKnown, admins
  <2>3. PasswordsOwn' /\ OthersRemain'
    BY <1>1 DEF Login, PasswordsOwn, OthersRemain, Pending, Deleting, admins
  <2> QED BY <2>1, <2>2, <2>3
<1>2. ASSUME NEW c \in cookies, CookieGone(c)
      PROVE  AdminsInv'
  <2>1. TypeOK' /\ CookiesKnown'
    BY <1>2 DEF CookieGone, TypeOK, CookiesKnown, admins
  <2>2. PasswordsOwn' /\ OthersRemain'
    BY <1>2 DEF CookieGone, PasswordsOwn, OthersRemain, Pending, Deleting, admins
  <2> QED BY <2>1, <2>2
<1> QED BY <1>1, <1>2 DEF Session

\* A new administrator only adds one.
LEMMA CreateAdmins ==
  ASSUME IdsAssumption, AdminsInv, NEW i \in Ids, NEW n \in Names, Create(i, n)
  PROVE  AdminsInv'
<1> USE DEF AdminsInv
<1>1. n # None /\ name[i] = None
  BY DEF IdsAssumption, Create, TypeOK, admins
<1>2. name'[i] = n /\ \A j \in Ids \ {i} : name'[j] = name[j]
  BY DEF Create, TypeOK
<1>3. admins' = admins \cup {i}
  BY <1>1, <1>2 DEF admins
<1>4. name' \in [Ids -> Names \cup {None}]
  BY DEF Create, TypeOK
<1>5. \A j \in admins : name'[j] = name[j] /\ name[j] # n
  BY <1>1, <1>2 DEF Create, Taken, admins
<1>6. TypeOK'
  BY <1>2, <1>3, <1>4, <1>5 DEF Create, TypeOK, admins
<1>7. CookiesKnown'
  BY <1>2, <1>3 DEF Create, TypeOK, CookiesKnown
<1>8. PasswordsOwn'
  BY <1>2, <1>3 DEF Create, TypeOK, PasswordsOwn, Pending
<1>9. OthersRemain'
  BY <1>3 DEF Create, OthersRemain, Deleting
<1> QED BY <1>6, <1>7, <1>8, <1>9

\* A rename leaves the cookies behind, which `renamed' remembers.
LEMMA RenameAdmins ==
  ASSUME IdsAssumption, AdminsInv,
         NEW c \in cookies, NEW i \in Ids, NEW n \in Names, Rename(c, i, n)
  PROVE  AdminsInv'
<1> USE DEF AdminsInv
<1>1. n # None /\ name[i] # None
  BY DEF IdsAssumption, Rename, admins
<1>2. name'[i] = n /\ \A j \in Ids \ {i} : name'[j] = name[j]
  BY DEF Rename, TypeOK
<1>3. admins' = admins
  BY <1>1, <1>2 DEF admins
<1>4. name' \in [Ids -> Names \cup {None}]
  BY DEF Rename, TypeOK
<1>5. \A j \in Ids : name[j] # n
  BY <1>1 DEF Rename, Taken
<1>6. cookies' \subseteq cookies \cup {Cookie(i, n)}
  BY DEF Rename
<1>7. renamed \subseteq renamed' /\ renamed' \subseteq renamed \cup {i}
  BY DEF Rename
<1>8. TypeOK'
  <2>1. \A j, k \in admins' : name'[j] = name'[k] => j = k
    BY <1>2, <1>3, <1>5 DEF TypeOK, admins
  <2>2. cookies' \subseteq [id : Ids, name : Names]
    BY <1>6 DEF Cookie, TypeOK
  <2> QED BY <1>3, <1>4, <1>7, <2>1, <2>2 DEF Rename, TypeOK
<1>9. CookiesKnown'
  <2> SUFFICES ASSUME NEW d \in cookies'
               PROVE  /\ d.id \notin unused
                      /\ d.id \in admins => name'[d.id] = d.name \/ d.id \in renamed'
    BY <1>3 DEF CookiesKnown, Rename
  <2>1. CASE d = Cookie(i, n)
    BY <2>1, <1>1, <1>2 DEF Cookie, TypeOK, admins
  <2>2. CASE d \in cookies /\ d.id # i
    BY <2>2, <1>2, <1>7 DEF CookiesKnown, TypeOK
  <2>3. CASE d \in cookies /\ d.id = i /\ i \in renamed'
    BY <2>3 DEF CookiesKnown
  \* Renaming oneself took this very cookie away, or its name was stale.
  <2>4. CASE d \in cookies /\ d # Cookie(i, n) /\ d.id = i /\ i \notin renamed'
    <3>1. c.id = i /\ cookies' = (cookies \ {c}) \cup {Cookie(i, n)}
      BY <2>4, <1>7 DEF Rename
    <3>2. d # c
      BY <3>1, <2>4
    <3>3. name[i] = d.name /\ name[i] = c.name
      BY <3>1, <2>4, <1>1, <1>7 DEF CookiesKnown, admins
    <3>4. d = [id |-> d.id, name |-> d.name] /\ c = [id |-> c.id, name |-> c.name]
      BY <2>4 DEF TypeOK
    <3> QED BY <3>1, <3>2, <3>3, <3>4, <2>4
  <2> QED BY <1>6, <2>1, <2>2, <2>3, <2>4
<1>10. PasswordsOwn'
  BY <1>3, <1>7 DEF Rename, PasswordsOwn, Pending
<1>11. OthersRemain'
  BY <1>3 DEF Rename, OthersRemain, Deleting
<1> QED BY <1>8, <1>9, <1>10, <1>11

\* A request that waits for its statement, and nobody else's, changes.
LEMMA AwaitReq ==
  ASSUME TypeOK, NEW r \in Requests, NEW op \in {"delete", "password"},
         NEW i \in Ids, NEW k \in Ids \cup {None}, Await(r, op, i, k)
  PROVE  /\ req' \in [Requests -> [op : {"delete", "password"}, id : Ids,
                                   proof : Ids \cup {None}] \cup {None}]
         /\ req'[r] = Request(op, i, k)
         /\ \A q \in Requests \ {r} : req'[q] = req[q]
BY DEF Await, Request, TypeOK

\* The deletion that passed the count: another administrator is there, or two
\* deletions have.
LEMMA CheckDeleteAdmins ==
  ASSUME IdsAssumption, AdminsInv,
         NEW r \in Requests, NEW c \in cookies, NEW i \in Ids, CheckDelete(r, c, i)
  PROVE  AdminsInv'
<1> USE DEF AdminsInv
<1>1. /\ req' \in [Requests -> [op : {"delete", "password"}, id : Ids,
                                proof : Ids \cup {None}] \cup {None}]
      /\ req'[r] = Request("delete", i, None)
      /\ \A q \in Requests \ {r} : req'[q] = req[q]
  BY AwaitReq DEF CheckDelete
<1>2. admins' = admins
  BY DEF CheckDelete, admins
<1>3. TypeOK'
  BY <1>1, <1>2 DEF CheckDelete, TypeOK
<1>4. CookiesKnown'
  BY <1>2 DEF CheckDelete, CookiesKnown
<1>5. PasswordsOwn'
  BY <1>1, <1>2 DEF CheckDelete, PasswordsOwn, Pending, Request
<1>6. OthersRemain'
  <2> SUFFICES ASSUME ~raced' PROVE OthersRemain'
    BY DEF OthersRemain
  <2>1. ~raced /\ Deleting = {}
    BY DEF CheckDelete, TypeOK
  <2>2. \A q \in Deleting' : q = r
    BY <1>1, <2>1 DEF Deleting
  <2>3. IsFiniteSet(admins)
    BY FS_Subset DEF IdsAssumption, admins
  <2>4. \E j \in admins : j # i
    BY <2>3, AnotherOne DEF CheckDelete
  <2> QED BY <1>1, <1>2, <2>1, <2>2, <2>4 DEF OthersRemain, Request
<1> QED BY <1>3, <1>4, <1>5, <1>6

\* The old password that was right is that of whoever bears the cookie's name.
LEMMA CheckPasswordAdmins ==
  ASSUME IdsAssumption, AdminsInv,
         NEW r \in Requests, NEW c \in cookies, NEW k \in Ids, CheckPassword(r, c, k)
  PROVE  AdminsInv'
<1> USE DEF AdminsInv
<1>1. c.id \in Ids /\ c.name \in Names /\ c.name # None
  BY DEF TypeOK, IdsAssumption
<1>2. /\ req' \in [Requests -> [op : {"delete", "password"}, id : Ids,
                                proof : Ids \cup {None}] \cup {None}]
      /\ req'[r] = Request("password", c.id, k)
      /\ \A q \in Requests \ {r} : req'[q] = req[q]
  BY <1>1, AwaitReq DEF CheckPassword
<1>3. admins' = admins
  BY DEF CheckPassword, admins
<1>4. TypeOK'
  BY <1>2, <1>3 DEF CheckPassword, TypeOK
<1>5. CookiesKnown'
  BY <1>3 DEF CheckPassword, CookiesKnown
\* The row with the cookie's name is the cookie's own: names are unique.
<1>6. c.id \notin unused /\ (c.id \in admins => k = c.id \/ c.id \in renamed)
  BY <1>1 DEF CheckPassword, CookiesKnown, TypeOK, admins
<1>7. PasswordsOwn'
  BY <1>2, <1>3, <1>6 DEF CheckPassword, PasswordsOwn, Pending, Request
<1>8. OthersRemain'
  <2>1. Deleting' \subseteq Deleting /\ \A q \in Deleting' : req'[q] = req[q]
    BY <1>2 DEF Deleting, Request
  <2> QED BY <1>3, <2>1 DEF CheckPassword, OthersRemain
<1> QED BY <1>4, <1>5, <1>7, <1>8

\* The statement of a request takes effect, or the request stops.
LEMMA ExecuteAdmins ==
  ASSUME IdsAssumption, AdminsInv, NEW r \in Requests, Execute(r) \/ Abort(r)
  PROVE  AdminsInv'
<1> USE DEF AdminsInv
<1>1. /\ req' = [req EXCEPT ![r] = None]
      /\ req[r] # None
      /\ UNCHANGED <<unused, cookies, raced, renamed>>
  BY DEF Execute, Abort
<1>2. name' \in [Ids -> Names \cup {None}] /\ \A i \in Ids : name'[i] \in {name[i], None}
  BY DEF Execute, Abort, TypeOK
<1>3. admins' \subseteq admins /\ \A i \in admins' : name'[i] = name[i]
  BY <1>2 DEF admins
<1>4. req'[r] = None /\ \A q \in Requests \ {r} : req'[q] = req[q]
  BY <1>1 DEF TypeOK
<1>5. TypeOK'
  BY <1>1, <1>2, <1>3 DEF TypeOK
<1>6. CookiesKnown'
  BY <1>1, <1>3 DEF CookiesKnown
<1>7. PasswordsOwn'
  BY <1>1, <1>3, <1>4 DEF PasswordsOwn, Pending
<1>8. OthersRemain'
  <2> SUFFICES ASSUME ~raced PROVE OthersRemain'
    BY <1>1 DEF OthersRemain
  <2>1. Deleting' = Deleting \ {r} /\ \A q \in Deleting' : req'[q] = req[q]
    BY <1>4 DEF Deleting
  <2>2. CASE name' = name
    <3>1. admins' = admins
      BY <2>2 DEF admins
    <3> QED BY <3>1, <2>1 DEF OthersRemain
  <2>3. CASE name' # name
    <3>1. req[r].op = "delete" /\ name' = [name EXCEPT ![req[r].id] = None]
      BY <2>3 DEF Execute, Abort
    <3>2. r \in Deleting
      BY <3>1, <1>1 DEF Deleting
    <3>3. Deleting' = {}
      BY <2>1, <3>2 DEF OthersRemain
    <3>4. PICK j \in admins : j # req[r].id
      BY <3>2 DEF OthersRemain
    <3>5. j \in admins'
      BY <3>1, <3>4 DEF TypeOK, admins
    <3> QED BY <3>3, <3>5 DEF OthersRemain
  <2> QED BY <2>2, <2>3
<1> QED BY <1>5, <1>6, <1>7, <1>8

\* Every request of the back office about administrators.
LEMMA ManageAdmins ==
  ASSUME IdsAssumption, AdminsInv, Manage
  PROVE  AdminsInv'
BY CreateAdmins, RenameAdmins, CheckDeleteAdmins, CheckPasswordAdmins, ExecuteAdmins
   DEF Manage

\* Nothing of the administrators changes.
LEMMA StillAdmins ==
  ASSUME AdminsInv, UNCHANGED vars
  PROVE  AdminsInv'
BY DEF vars, AdminsInv, TypeOK, CookiesKnown, PasswordsOwn, OthersRemain, Pending,
       Deleting, admins

\* The invariants the runs check follow.
LEMMA AdminsInvImplies ==
  ASSUME AdminsInv
  PROVE  TypeOK /\ LastAdminKept /\ OldPasswordIsOwn
BY DEF AdminsInv, LastAdminKept, AtLeastOneAdmin, OthersRemain, OldPasswordIsOwn,
       PasswordsOwn, Pending
=============================================================================
