----------------------------- MODULE GrantsProofs -----------------------------
(***************************************************************************)
(* Theorems about the grants of one client, for any scopes, users,         *)
(* requests and administrators.                                            *)
(*                                                                         *)
(* In three parts, as Grants is composed: the definitions of the scopes    *)
(* and their copies, the code and its exchanges, and the requests.  Every  *)
(* step of Grants is a step of the first two (or leaves them alone), so    *)
(* each part has an invariant of its own, and what a grant may contain     *)
(* relates them: system names only ever grow, so that the copy a handler   *)
(* decided with, however old, exempts no name that is not a system name    *)
(* by now.                                                                 *)
(***************************************************************************)
EXTENDS Grants, TLAPS

(***************************************************************************)
(* The definitions.                                                        *)
(***************************************************************************)
Tables == [Names -> S!Kinds]
Copies == [rows : Tables, late : BOOLEAN]

\* A copy, or rows on their way to become one: no system name of theirs has
\* stopped being one, and the seeded one is among them.
RowsOK(x) ==
  /\ x \in Copies
  /\ S!SystemNames(x.rows) \subseteq S!SystemNames(kind)
  /\ x.rows[Offline] = "system"

ScopesInv ==
  /\ S!TypeOK
  /\ kind[Offline] = "system"
  /\ copy # None => RowsOK(copy)
  /\ \A r \in Readers : fill[r] # None => RowsOK(fill[r])

\* All that Grants does to the definitions.
ScopesStep ==
  \/ \E r \in Readers : S!Select(r) \/ S!Store(r) \/ S!Drop(r)
  \/ \E d \in Admins : S!CreateOrDelete(d) \/ S!Written(d) \/ S!AnswerLost(d)
  \/ S!WriteElsewhere \/ S!CopyExpire
  \/ UNCHANGED scopeVars

Grows == S!SystemNames(kind) \subseteq S!SystemNames(kind')

(***************************************************************************)
(* The code.                                                               *)
(***************************************************************************)
\* An exchange that is about to create its session has paid and not had it yet.
Paid ==
  /\ created <= spent
  /\ \A e \in Exchanges : xchg[e].at = "session" => spent = A!Many \/ created < spent
  /\ spent < A!Many => \A e, x \in Exchanges : xchg[e].at = "session" /\ xchg[x].at = "session" => e = x

InRace(e) == xchg[e].at \in {"narrow", "rows", "reread", "consume"}

\* While nothing has overlapped: the code goes one way, pending to authorized
\* to consumed, since a confirmation is over before an exchange begins.
OneWay ==
  /\ \A e, x \in Exchanges : InRace(e) /\ InRace(x) => e = x
  /\ \A f, g \in Confirms : confirm[f].at = "authorize" /\ confirm[g].at = "authorize" => f = g
  /\ A!Is("authorized") \/ A!Is("consumed") => ~A!Confirming
  /\ A!Busy \/ spent > 0 => ~A!Is("pending") /\ ~A!Confirming
  /\ spent > 0 => /\ spent = 1 /\ ~A!Is("authorized")
                  /\ \A e \in Exchanges : xchg[e].at # "consume"

CodeInv ==
  /\ A!TypeOK
  /\ asked = None => /\ rec = None /\ spent = 0
                     /\ \A e \in Exchanges : xchg[e].at = "idle"
                     /\ \A f \in Confirms : confirm[f].at = "idle"
  /\ Paid
  /\ overlap \/ OneWay

(***************************************************************************)
(* The requests.                                                           *)
(***************************************************************************)
\* What the user has, and what is exempt to this day.
Allowed(user) == Owned[user] \cup S!SystemNames(kind) \cup {Offline}

Request ==
  [at : {"idle", "sets", "rows", "client", "create"}, list : SUBSET Names,
   rows : Tables \cup {None}, user : Users \cup {None}, scope : SUBSET Names]

AskOK(a) ==
  /\ ask[a] \in Request
  /\ (ask[a].at = "rows") = (fill[a] # None)
  /\ ask[a].at \in {"sets", "rows"} /\ world.what = "issue" => ask[a].user \in Users
  /\ ask[a].user # None => world.what \in {"device", "issue"}
  /\ ask[a].at = "client" => world.what # "issue" /\ ask[a].user = None
  /\ ask[a].at = "create" \/ Polls(a) => ask[a].scope \in Asked
  /\ ask[a].at = "create" /\ ask[a].user # None => ask[a].scope \subseteq Allowed(ask[a].user)

\* An exchange that narrowScope has let through.
ExchangeOK(e) ==
  xchg[e].at \in {"reread", "consume", "session"} => asked \subseteq Allowed(xchg[e].user)

AdminRequest == [at : {"idle", "sets", "rows", "update", "delete", "write"}, list : SUBSET Names]

RequestsInv ==
  /\ app \in {None} \cup SUBSET Names
  /\ devices \subseteq Asked
  /\ ask = [a \in Asks |-> ask[a]]
  /\ \A a \in Asks : AskOK(a)
  /\ \A e \in Exchanges : ExchangeOK(e)
  /\ admin \in [Admins -> AdminRequest]
  /\ world \in Worlds

Inv == ScopesInv /\ CodeInv /\ RequestsInv

(***************************************************************************)
(* The definitions: a system scope is never undefined.                     *)
(***************************************************************************)
\* No row is null.
LEMMA CopiesAreNotNone == \A x \in Copies : x # None /\ x = [rows |-> x.rows, late |-> x.late]
BY NoneAssumption DEF Copies, Tables

\* What invalidation leaves of a copy differs in the history variable only.
LEMMA LateCopy ==
  ASSUME NEW x \in Copies \cup {None}
  PROVE  /\ S!C!Late(x) \in Copies \cup {None}
         /\ (S!C!Late(x) = None) = (x = None)
         /\ x # None => S!C!Late(x).rows = x.rows
BY CopiesAreNotNone DEF S!C!Late, Copies

\* The table as a SELECT returns it, and the copies, in the words of Scopes.
LEMMA ScopesTyped ==
  ASSUME ScopesInv
  PROVE  /\ kind \in Tables /\ writes \in Nat
         /\ copy \in Copies \cup {None} /\ fill \in [Readers -> Copies \cup {None}]
         /\ writing \in SUBSET Admins
BY NamesAssumption DEF ScopesInv, S!TypeOK, S!C!TypeOK, Copies, Tables, S!NamesAssumption

\* Which rows a step of the copy puts where.
LEMMA CopyStep ==
  ASSUME ScopesInv, NEW r \in Readers
  PROVE  /\ S!Select(r) => /\ fill'[r] \in Copies /\ fill'[r].rows = kind
                           /\ \A q \in Readers \ {r} : fill'[q] = fill[q]
         /\ S!Store(r) => /\ fill[r] # None /\ copy' = fill[r] /\ fill'[r] = None
                          /\ \A q \in Readers \ {r} : fill'[q] = fill[q]
         /\ S!Drop(r) => /\ fill'[r] = None
                         /\ \A q \in Readers \ {r} : fill'[q] = fill[q]
<1>1. kind \in Tables /\ fill \in [Readers -> Copies \cup {None}]
  BY ScopesTyped
<1>2. S!C!Rows(kind, FALSE) \in Copies /\ S!C!Rows(kind, FALSE).rows = kind
  BY <1>1 DEF S!C!Rows, Copies
<1> QED
  BY <1>1, <1>2 DEF S!Select, S!C!Select, S!Store, S!C!Store, S!Drop, S!C!Drop

\* The seeded rows are well formed, and nobody has a copy of them.
LEMMA InitScopes == Init => ScopesInv
<1> SUFFICES ASSUME Init PROVE ScopesInv
  OBVIOUS
<1>1. kind \in Tables /\ kind[Offline] = "system" /\ writes \in 0 .. MaxWrites
  BY NamesAssumption, SeedAssumption DEF Init, S!Init, S!NamesAssumption, Tables
<1>2. copy = None /\ fill = [r \in Readers |-> None] /\ writing = {}
  BY DEF Init, S!Init, S!C!Init
<1>3. S!TypeOK
  BY <1>1, <1>2 DEF S!TypeOK, S!C!TypeOK, Tables
<1> QED
  BY <1>1, <1>2, <1>3 DEF ScopesInv

\* A write of the table: a name gets a row, or a business name loses its own.
LEMMA ChangeGrows ==
  ASSUME ScopesInv, S!Change
  PROVE  /\ kind' \in Tables /\ writes' \in 0 .. MaxWrites /\ kind'[Offline] = "system" /\ Grows
<1>1. kind \in Tables /\ writes \in 0 .. MaxWrites /\ kind[Offline] = "system"
  BY ScopesTyped DEF ScopesInv, S!TypeOK
<1>2. writes' \in 0 .. MaxWrites
  BY <1>1, NamesAssumption DEF S!Change, S!NamesAssumption
<1>3. PICK n \in Names : S!Define(n, "business") \/ S!Define(n, "system") \/ S!Undefine(n)
  BY DEF S!Change
<1>4. /\ kind' \in Tables /\ kind[n] # "system"
      /\ \A m \in Names \ {n} : kind'[m] = kind[m]
  BY <1>1, <1>3 DEF S!Define, S!Undefine, Tables, S!Kinds
<1> QED
  BY <1>1, <1>2, <1>4, OwnedAssumption DEF Grows, S!SystemNames

\* ScopesInv is inductive, and no step takes a system name away.
LEMMA StepScopes == ScopesInv /\ ScopesStep => ScopesInv' /\ Grows
<1> SUFFICES ASSUME ScopesInv, ScopesStep PROVE ScopesInv' /\ Grows
  OBVIOUS
<1>t. /\ kind \in Tables /\ writes \in 0 .. MaxWrites /\ writing \in SUBSET Admins
      /\ copy \in Copies \cup {None} /\ fill \in [Readers -> Copies \cup {None}]
  BY ScopesTyped DEF ScopesInv, S!TypeOK
<1>f. ASSUME kind' \in Tables, writes' \in 0 .. MaxWrites, writing' \in SUBSET Admins,
             copy' \in Copies \cup {None}, fill' \in [Readers -> Copies \cup {None}]
      PROVE  S!TypeOK'
  BY <1>f DEF S!TypeOK, S!C!TypeOK, Copies, Tables
<1>1. ASSUME NEW r \in Readers, S!Select(r) PROVE ScopesInv' /\ Grows
  <2>1. UNCHANGED <<kind, writes, copy, writing>> /\ Grows
    BY <1>1 DEF S!Select, S!C!Select, Grows
  <2>2. fill' \in [Readers -> Copies \cup {None}]
    BY <1>1, <1>t, CopyStep DEF S!Select, S!C!Select
  <2>3. RowsOK(fill'[r])
    BY <1>1, CopyStep DEF RowsOK, ScopesInv
  <2>4. S!TypeOK'
    BY <1>f, <1>t, <2>1, <2>2
  <2> QED
    BY <1>1, <2>1, <2>3, <2>4, CopyStep DEF ScopesInv, RowsOK
<1>2. ASSUME NEW r \in Readers, S!Store(r) \/ S!Drop(r) PROVE ScopesInv' /\ Grows
  <2>1. UNCHANGED <<kind, writes, writing>> /\ Grows
    BY <1>2 DEF S!Store, S!C!Store, S!Drop, S!C!Drop, Grows
  <2>2. fill' = [fill EXCEPT ![r] = None] /\ copy' \in {copy, fill[r]}
    BY <1>2 DEF S!Store, S!C!Store, S!Drop, S!C!Drop
  <2>3. copy' \in Copies \cup {None} /\ fill' \in [Readers -> Copies \cup {None}]
    BY <1>t, <2>2
  <2>4. S!TypeOK'
    BY <1>f, <1>t, <2>1, <2>3
  <2> QED
    BY <1>t, <2>1, <2>2, <2>4 DEF ScopesInv, RowsOK
<1>3. ASSUME S!WriteElsewhere \/ \E d \in Admins : S!Written(d) \/ S!AnswerLost(d)
      PROVE  ScopesInv' /\ Grows
  <2>1. kind' \in Tables /\ writes' \in 0 .. MaxWrites /\ kind'[Offline] = "system" /\ Grows
    BY <1>3, <1>t, ChangeGrows
       DEF S!WriteElsewhere, S!Written, S!AnswerLost, Grows, ScopesInv
  <2>2. /\ writing' \in SUBSET Admins /\ fill' = S!C!AllLate
        /\ copy' \in {None, S!C!Late(copy)}
    BY <1>3, <1>t DEF S!WriteElsewhere, S!C!WriteElsewhere, S!Written, S!C!InvalidateCache,
       S!AnswerLost, S!C!LoseAnswer
  <2>3. \A r \in Readers : fill'[r] = S!C!Late(fill[r]) /\ fill'[r] \in Copies \cup {None}
    BY <1>t, <2>2, LateCopy DEF S!C!AllLate
  <2>4. fill' \in [Readers -> Copies \cup {None}] /\ copy' \in Copies \cup {None}
    BY <1>t, <2>2, <2>3, LateCopy DEF S!C!AllLate
  <2>5. S!TypeOK'
    BY <1>f, <2>1, <2>2, <2>4
  <2>6. ASSUME NEW r \in Readers, fill'[r] # None PROVE RowsOK(fill[r])'
    <3>1. fill[r] # None /\ fill'[r].rows = fill[r].rows /\ fill'[r] \in Copies
      BY <1>t, <2>3, <2>6, LateCopy
    <3> QED
      BY <2>1, <3>1 DEF ScopesInv, RowsOK, Grows
  <2>7. ASSUME copy' # None PROVE RowsOK(copy)'
    <3>1. copy # None /\ copy'.rows = copy.rows /\ copy' \in Copies
      BY <1>t, <2>2, <2>4, <2>7, LateCopy
    <3> QED
      BY <2>1, <3>1 DEF ScopesInv, RowsOK, Grows
  <2> QED
    BY <2>1, <2>5, <2>6, <2>7 DEF ScopesInv
<1>4. ASSUME NEW d \in Admins, S!CreateOrDelete(d) PROVE ScopesInv' /\ Grows
  <2>1. kind' \in Tables /\ writes' \in 0 .. MaxWrites /\ kind'[Offline] = "system" /\ Grows
    BY <1>4, ChangeGrows DEF S!CreateOrDelete
  <2>2. UNCHANGED <<copy, fill>> /\ writing' \in SUBSET Admins
    BY <1>4, <1>t DEF S!CreateOrDelete, S!C!Commit
  <2>3. S!TypeOK'
    BY <1>f, <1>t, <2>1, <2>2
  <2> QED
    BY <2>1, <2>2, <2>3 DEF ScopesInv, RowsOK, Grows
<1>5. CASE S!CopyExpire \/ UNCHANGED scopeVars
  <2>1. UNCHANGED <<kind, writes, fill, writing>> /\ copy' \in {copy, None} /\ Grows
    BY <1>5 DEF S!CopyExpire, S!C!Expire, scopeVars, Grows
  <2>2. S!TypeOK'
    BY <1>f, <1>t, <2>1
  <2> QED
    BY <2>1, <2>2 DEF ScopesInv, RowsOK
<1> QED
  BY <1>1, <1>2, <1>3, <1>4, <1>5 DEF ScopesStep

(***************************************************************************)
(* The code and its exchanges.                                             *)
(***************************************************************************)
\* All that Grants does to the code, by an exchange ...
ExchangeStep(e) ==
  \/ A!Begin(e) \/ A!AwaitRows(e) \/ A!ConsumeGet(e) \/ A!ConsumeSet(e)
  \/ A!CreateSession(e) \/ A!Issue(e) \/ A!Fail(e)
  \/ xchg[e].at \in {"narrow", "rows"} /\ \E granted \in BOOLEAN : A!Narrowed(e, granted)

\* ... a confirmation, a request that issues it, or time.
CodeStep ==
  \/ \E scope \in Asked : A!Create(scope)
  \/ \E e \in Exchanges : ExchangeStep(e)
  \/ \E f \in Confirms : A!AuthorizeGet(f) \/ A!AuthorizeSet(f)
  \/ A!Expire \/ A!KeyExpire
  \/ UNCHANGED codeVars

\* Neither the record nor the scope it was issued for is null.
LEMMA CodeNotNone == None \notin A!Record /\ None \notin Asked /\ None \notin Users
<1>1. Asked \subseteq SUBSET Names
  BY RequestsAssumption, OwnedAssumption DEF Asked, Final
<1> QED
  BY <1>1, NoneAssumption, CodeAssumption DEF A!UsersAssumption

\* A code that has not been issued.
LEMMA InitCode == Init => CodeInv
<1> SUFFICES ASSUME Init PROVE CodeInv
  OBVIOUS
<1>1. /\ rec = None /\ asked = None /\ expired = FALSE /\ created = 0 /\ spent = 0 /\ overlap = FALSE
      /\ xchg = [e \in Exchanges |-> [at |-> "idle", user |-> None]]
      /\ confirm = [f \in Confirms |-> [at |-> "idle", user |-> None]]
  BY DEF Init, A!Init
<1>2. A!TypeOK
  <2>1. [at |-> "idle", user |-> None] \in A!Exchange /\ [at |-> "idle", user |-> None] \in A!Confirm
    BY DEF A!Exchange, A!Confirm
  <2>2. xchg \in [Exchanges -> A!Exchange] /\ confirm \in [Confirms -> A!Confirm]
    BY <1>1, <2>1
  <2>3. created \in 0 .. A!Many /\ spent \in 0 .. A!Many
    BY <1>1 DEF A!Many
  <2> QED
    BY <1>1, <2>2, <2>3 DEF A!TypeOK
<1>3. Paid
  BY <1>1 DEF Paid
<1>4. OneWay
  BY <1>1 DEF OneWay, InRace, A!Is, A!Confirming, A!Busy
<1> QED
  BY <1>1, <1>2, <1>3, <1>4 DEF CodeInv

\* What the steps take from type correctness.
LEMMA CodeTyped ==
  ASSUME CodeInv
  PROVE  /\ rec \in A!Record \cup {None} /\ asked \in Asked \cup {None} /\ expired \in BOOLEAN
         /\ xchg \in [Exchanges -> A!Exchange] /\ confirm \in [Confirms -> A!Confirm]
         /\ created \in 0 .. 2 /\ spent \in 0 .. 2 /\ overlap \in BOOLEAN
BY DEF CodeInv, A!TypeOK, A!Many

\* The counters go up by one, to two.
LEMMA Counting ==
  ASSUME NEW n \in 0 .. 2
  PROVE  A!Inc(n) \in 0 .. 2 /\ A!Inc(n) >= n /\ (n < 2 => A!Inc(n) = n + 1) /\ (n = 2 => A!Inc(n) = 2)
BY DEF A!Inc, A!Many

\* A step of an exchange that neither pays nor creates.
Moves(e) ==
  /\ xchg' \in [Exchanges -> A!Exchange] /\ \A x \in Exchanges \ {e} : xchg'[x] = xchg[x]
  /\ UNCHANGED <<rec, asked, expired, confirm, created, spent>>
  /\ \/ overlap' = overlap /\ (InRace(e)' => InRace(e))
     \/ overlap' = (overlap \/ A!Busy) /\ A!Is("authorized")
  /\ xchg'[e].at # "session"
  /\ asked # None \/ xchg'[e].at = "idle"
  /\ xchg'[e].at = "consume" => A!Is("authorized")

\* It keeps the invariant.
LEMMA ExchangeMoves == ASSUME CodeInv, NEW e \in Exchanges, Moves(e) PROVE CodeInv'
<1>m. /\ xchg' \in [Exchanges -> A!Exchange]
      /\ UNCHANGED <<rec, asked, expired, confirm, created, spent>>
      /\ \/ overlap' = overlap /\ (InRace(e)' => InRace(e))
         \/ overlap' = (overlap \/ A!Busy) /\ A!Is("authorized")
      /\ xchg'[e].at # "session"
      /\ asked # None \/ xchg'[e].at = "idle"
      /\ xchg'[e].at = "consume" => A!Is("authorized")
  BY DEF Moves
<1>t. /\ xchg \in [Exchanges -> A!Exchange] /\ overlap \in BOOLEAN /\ overlap' \in BOOLEAN
      /\ created \in 0 .. 2 /\ spent \in 0 .. 2
  BY <1>m, CodeTyped
<1>1. \A x \in Exchanges \ {e} : xchg'[x] = xchg[x]
  BY DEF Moves
<1>2. A!TypeOK'
  BY <1>m, <1>t DEF CodeInv, A!TypeOK
<1>3. Paid'
  BY <1>m, <1>1 DEF CodeInv, Paid
<1>4. ASSUME ~overlap' PROVE OneWay'
  <2>1. OneWay
    BY <1>m, <1>t, <1>4 DEF CodeInv
  <2>2. ASSUME NEW x \in Exchanges \ {e}, InRace(e)', InRace(x)' PROVE FALSE
    <3>1. InRace(x) /\ A!Busy
      BY <1>1, <2>2 DEF InRace, A!Busy
    <3>2. InRace(e)
      BY <1>m, <1>4, <1>t, <2>2, <3>1
    <3> QED
      BY <2>1, <3>1, <3>2 DEF OneWay
  <2>3. A!Busy' => A!Busy \/ A!Is("authorized")
    BY <1>m, <1>1 DEF A!Busy, InRace
  <2>4. spent > 0 => \A x \in Exchanges : xchg'[x].at # "consume"
    BY <1>m, <1>1, <2>1 DEF OneWay
  <2>5. ~(A!Is("authorized") /\ A!Is("pending"))
    BY DEF A!Is
  <2>6. UNCHANGED <<A!Is("authorized"), A!Is("pending"), A!Is("consumed"), A!Confirming>>
    BY <1>m DEF A!Is, A!Confirming
  <2>7. \A x, y \in Exchanges : InRace(x)' /\ InRace(y)' => x = y
    BY <1>1, <2>1, <2>2 DEF OneWay, InRace
  <2> QED
    BY <1>m, <2>1, <2>3, <2>4, <2>5, <2>6, <2>7 DEF OneWay
<1> QED
  BY <1>m, <1>1, <1>2, <1>3, <1>4 DEF CodeInv

\* An exchange that changes no more than its own place.
LEMMA ExchangeLooks ==
  ASSUME CodeInv, NEW e \in Exchanges,
         \/ A!Begin(e) \/ A!AwaitRows(e) \/ A!ConsumeGet(e) \/ A!Issue(e) \/ A!Fail(e)
         \/ xchg[e].at \in {"narrow", "rows"} /\ \E granted \in BOOLEAN : A!Narrowed(e, granted)
  PROVE  CodeInv'
<1>t. xchg \in [Exchanges -> A!Exchange] /\ rec \in A!Record \cup {None}
  BY CodeTyped
<1>n. xchg[e].at # "idle" \/ A!Is("authorized") => asked # None
  BY DEF CodeInv, A!Is
<1>m. ASSUME NEW pc \in {"idle", "narrow", "rows", "reread", "consume"}, NEW u \in Users \cup {None},
             \/ xchg' = [xchg EXCEPT ![e] = [at |-> pc, user |-> u]]
             \/ A!Goto(e, pc)
      PROVE  /\ xchg' \in [Exchanges -> A!Exchange] /\ xchg'[e].at = pc
             /\ \A x \in Exchanges \ {e} : xchg'[x] = xchg[x]
  BY <1>t, <1>m DEF A!Goto, A!Exchange
<1>2. ASSUME A!Answer(e), UNCHANGED <<rec, asked, expired, confirm, created, spent, overlap>>
      PROVE  CodeInv'
  <2>1. xchg' = [xchg EXCEPT ![e] = [at |-> "idle", user |-> None]]
    BY <1>2 DEF A!Answer
  <2>2. /\ xchg' \in [Exchanges -> A!Exchange] /\ xchg'[e].at = "idle"
        /\ \A x \in Exchanges \ {e} : xchg'[x] = xchg[x]
    BY <1>m, <2>1
  <2>3. Moves(e)
    BY <1>2, <2>2 DEF Moves, InRace
  <2> QED
    BY <2>3, ExchangeMoves
<1>3. ASSUME NEW pc \in {"rows", "reread", "consume"}, A!Goto(e, pc), InRace(e),
             pc = "consume" => A!Is("authorized"),
             UNCHANGED <<rec, asked, expired, confirm, created, spent, overlap>>
      PROVE  CodeInv'
  <2>1. /\ xchg' \in [Exchanges -> A!Exchange] /\ xchg'[e].at = pc
        /\ \A x \in Exchanges \ {e} : xchg'[x] = xchg[x]
    BY <1>m, <1>3
  <2>2. asked # None
    BY <1>n, <1>3 DEF InRace
  <2>3. Moves(e)
    BY <1>3, <2>1, <2>2 DEF Moves
  <2> QED
    BY <2>3, ExchangeMoves
<1>1. CASE A!Begin(e)
  <2>1. UNCHANGED <<rec, asked, expired, confirm, created, spent>>
    BY <1>1 DEF A!Begin
  <2>2. CASE A!Accepted /\ xchg' = [xchg EXCEPT ![e] = [at |-> "narrow", user |-> rec.user]]
             /\ overlap' = (overlap \/ A!Busy)
    <3>1. A!Is("authorized") /\ rec.user \in Users \cup {None}
      BY <1>t, <2>2 DEF A!Accepted, A!Is, A!Record
    <3>2. /\ xchg' \in [Exchanges -> A!Exchange] /\ xchg'[e].at = "narrow"
          /\ \A x \in Exchanges \ {e} : xchg'[x] = xchg[x]
      BY <1>m, <2>2, <3>1
    <3>3. Moves(e)
      BY <1>n, <2>1, <2>2, <3>1, <3>2 DEF Moves
    <3> QED
      BY <3>3, ExchangeMoves
  <2>3. CASE A!Answer(e) /\ UNCHANGED overlap
    BY <1>2, <2>1, <2>3
  <2> QED
    BY <1>1, <2>2, <2>3 DEF A!Begin
<1>4. CASE A!AwaitRows(e) \/ A!ConsumeGet(e) \/ A!Issue(e) \/ A!Fail(e)
  BY <1>2, <1>3, <1>4 DEF A!AwaitRows, A!ConsumeGet, A!Issue, A!Fail, InRace
<1>5. ASSUME xchg[e].at \in {"narrow", "rows"}, NEW granted \in BOOLEAN, A!Narrowed(e, granted)
      PROVE  CodeInv'
  BY <1>2, <1>3, <1>5 DEF A!Narrowed, InRace
<1> QED
  BY <1>1, <1>4, <1>5

\* The code is consumed: paid for once more, before anything is created.
LEMMA ConsumeCode == ASSUME CodeInv, NEW e \in Exchanges, A!ConsumeSet(e) PROVE CodeInv'
<1>t. /\ xchg \in [Exchanges -> A!Exchange] /\ created \in 0 .. 2 /\ spent \in 0 .. 2
      /\ overlap \in BOOLEAN
  BY CodeTyped
<1>1. /\ xchg[e].at = "consume" /\ spent' = A!Inc(spent)
      /\ UNCHANGED <<asked, expired, confirm, created, overlap>>
      /\ rec' = [status |-> "consumed", user |-> None]
  BY DEF A!ConsumeSet
<1>2. /\ xchg' \in [Exchanges -> A!Exchange] /\ xchg'[e].at = "session"
      /\ \A x \in Exchanges \ {e} : xchg'[x] = xchg[x]
  BY <1>t DEF A!ConsumeSet, A!Goto, A!Exchange
<1>3. rec' \in A!Record /\ rec' # None /\ asked # None
  BY <1>1, CodeNotNone DEF A!Record, CodeInv
<1>4. spent' \in 0 .. 2 /\ spent' >= spent /\ (spent < 2 => spent' = spent + 1) /\ (spent = 2 => spent' = 2)
  BY <1>1, <1>t, Counting
<1>5. A!TypeOK'
  BY <1>1, <1>2, <1>3, <1>4 DEF CodeInv, A!TypeOK, A!Many
<1>6. Paid'
  <2>1. created <= spent /\ created' <= spent'
    BY <1>1, <1>t, <1>4 DEF CodeInv, Paid
  <2>2. \A x \in Exchanges : xchg'[x].at = "session" => spent' = A!Many \/ created' < spent'
    BY <1>1, <1>2, <1>4, <1>t, <2>1 DEF CodeInv, Paid, A!Many
  <2>3. ASSUME spent' < 2 PROVE \A x \in Exchanges \ {e} : xchg'[x].at # "session"
    <3>1. spent = 0 /\ created = 0
      BY <1>4, <1>t, <2>1, <2>3
    <3> QED
      BY <1>2, <3>1 DEF CodeInv, Paid, A!Many
  <2> QED
    BY <2>1, <2>2, <2>3 DEF Paid, A!Many
<1>7. ASSUME ~overlap' PROVE OneWay'
  <2>1. OneWay /\ InRace(e) /\ A!Busy
    BY <1>1, <1>7, <1>t DEF CodeInv, InRace, A!Busy
  <2>2. spent = 0 /\ ~A!Confirming
    BY <1>1, <1>t, <2>1 DEF OneWay
  <2>3. \A x \in Exchanges : ~InRace(x)'
    BY <1>2, <2>1 DEF OneWay, InRace
  <2>4. ~A!Is("authorized")' /\ ~A!Is("pending")' /\ ~A!Confirming'
    BY <1>1, <2>2 DEF A!Is, A!Confirming
  <2>5. spent' = 1
    BY <1>4, <2>2
  <2>6. \A f, g \in Confirms : confirm'[f].at = "authorize" /\ confirm'[g].at = "authorize" => f = g
    BY <1>1, <2>1 DEF OneWay
  <2> QED
    BY <2>3, <2>4, <2>5, <2>6 DEF OneWay, InRace
<1> QED
  BY <1>3, <1>5, <1>6, <1>7, <1>1 DEF CodeInv

\* The session is created, and paid for.
LEMMA CreateOne == ASSUME CodeInv, NEW e \in Exchanges, A!CreateSession(e) PROVE CodeInv'
<1>t. /\ xchg \in [Exchanges -> A!Exchange] /\ created \in 0 .. 2 /\ spent \in 0 .. 2
      /\ overlap \in BOOLEAN
  BY CodeTyped
<1>1. /\ xchg[e].at = "session" /\ created' = A!Inc(created)
      /\ UNCHANGED <<rec, asked, expired, confirm, spent, overlap>>
  BY DEF A!CreateSession
<1>2. /\ xchg' \in [Exchanges -> A!Exchange] /\ xchg'[e].at = "issue"
      /\ \A x \in Exchanges \ {e} : xchg'[x] = xchg[x]
  BY <1>t DEF A!CreateSession, A!Goto, A!Exchange
<1>3. created' \in 0 .. 2 /\ created' >= created /\ (created < 2 => created' = created + 1)
  BY <1>1, <1>t, Counting
<1>4. A!TypeOK'
  BY <1>1, <1>2, <1>3 DEF CodeInv, A!TypeOK, A!Many
<1>5. Paid'
  <2>1. created' <= spent'
    BY <1>1, <1>3, <1>t DEF CodeInv, Paid, A!Many
  <2>2. spent' < 2 => \A x \in Exchanges : xchg'[x].at # "session"
    BY <1>1, <1>2 DEF CodeInv, Paid, A!Many
  <2> QED
    BY <1>1, <1>t, <2>1, <2>2 DEF Paid, A!Many
<1>6. OneWay => OneWay'
  <2>1. \A x \in Exchanges : InRace(x)' => InRace(x)
    BY <1>2 DEF InRace
  <2>2. A!Busy' => A!Busy
    BY <1>2 DEF A!Busy
  <2>3. UNCHANGED <<A!Is("authorized"), A!Is("pending"), A!Is("consumed"), A!Confirming>>
    BY <1>1 DEF A!Is, A!Confirming
  <2>4. \A x \in Exchanges : xchg'[x].at = "consume" => xchg[x].at = "consume"
    BY <1>2
  <2> QED
    BY <1>1, <2>1, <2>2, <2>3, <2>4 DEF OneWay
<1> QED
  BY <1>1, <1>2, <1>4, <1>5, <1>6 DEF CodeInv

\* The code is issued: nobody has it yet.
LEMMA IssueCode == ASSUME CodeInv, NEW scope \in Asked, A!Create(scope) PROVE CodeInv'
<1>1. /\ asked = None /\ asked' = scope /\ rec' = [status |-> "pending", user |-> None]
      /\ UNCHANGED <<expired, xchg, confirm, created, spent, overlap>>
  BY DEF A!Create
<1>2. rec' \in A!Record /\ asked' # None
  BY <1>1, CodeNotNone DEF A!Record
<1>3. A!TypeOK' /\ Paid'
  BY <1>1, <1>2 DEF CodeInv, A!TypeOK, Paid
<1>4. /\ \A e \in Exchanges : xchg'[e].at = "idle"
      /\ \A f \in Confirms : confirm'[f].at = "idle"
      /\ spent' = 0
  BY <1>1 DEF CodeInv
<1>5. OneWay'
  BY <1>1, <1>4 DEF OneWay, InRace, A!Is, A!Busy, A!Confirming
<1> QED
  BY <1>2, <1>3, <1>5 DEF CodeInv

\* A confirmation finds the code pending, or writes it authorized.
LEMMA ConfirmCode ==
  ASSUME CodeInv, NEW f \in Confirms, A!AuthorizeGet(f) \/ A!AuthorizeSet(f)
  PROVE  CodeInv'
<1>t. confirm \in [Confirms -> A!Confirm] /\ overlap \in BOOLEAN /\ spent \in 0 .. 2
  BY CodeTyped
<1>1. CASE A!AuthorizeGet(f)
  <2>1. /\ confirm[f].at = "idle" /\ A!Is("pending") /\ overlap' = (overlap \/ A!Confirming)
        /\ UNCHANGED <<rec, asked, expired, xchg, created, spent>>
    BY <1>1 DEF A!AuthorizeGet
  <2>2. /\ confirm' \in [Confirms -> A!Confirm]
        /\ \A g \in Confirms \ {f} : confirm'[g] = confirm[g]
    BY <1>1, <1>t DEF A!AuthorizeGet, A!Confirm
  <2>3. asked # None /\ ~A!Is("authorized") /\ ~A!Is("consumed")
    BY <2>1 DEF A!Is, CodeInv
  <2>4. A!TypeOK' /\ Paid'
    BY <1>t, <2>1, <2>2 DEF CodeInv, A!TypeOK, Paid
  <2>5. ASSUME ~overlap' PROVE OneWay'
    <3>1. OneWay /\ ~A!Confirming
      BY <1>t, <2>1, <2>5 DEF CodeInv
    <3>2. ~A!Busy /\ spent = 0
      BY <1>t, <2>1, <3>1 DEF OneWay
    <3>3. \A g, h \in Confirms : confirm'[g].at = "authorize" /\ confirm'[h].at = "authorize" => g = h
      BY <2>2, <3>1 DEF A!Confirming
    <3> QED
      BY <2>1, <2>3, <3>1, <3>2, <3>3 DEF OneWay, InRace, A!Busy, A!Is
  <2> QED
    BY <2>1, <2>3, <2>4, <2>5 DEF CodeInv
<1>2. CASE A!AuthorizeSet(f)
  <2>1. /\ confirm[f].at = "authorize"
        /\ rec' = [status |-> "authorized", user |-> confirm[f].user]
        /\ confirm' = [confirm EXCEPT ![f] = [at |-> "idle", user |-> None]]
        /\ UNCHANGED <<asked, expired, xchg, created, spent, overlap>>
    BY <1>2 DEF A!AuthorizeSet
  <2>2. /\ confirm' \in [Confirms -> A!Confirm] /\ confirm'[f].at = "idle"
        /\ \A g \in Confirms \ {f} : confirm'[g] = confirm[g]
    BY <1>t, <2>1 DEF A!Confirm
  <2>3. rec' \in A!Record /\ asked # None
    BY <1>t, <2>1 DEF A!Record, A!Confirm, CodeInv
  <2>4. A!TypeOK' /\ Paid'
    BY <2>1, <2>2, <2>3 DEF CodeInv, A!TypeOK, Paid
  <2>5. ASSUME ~overlap' PROVE OneWay'
    <3>1. OneWay /\ A!Confirming
      BY <1>t, <2>1, <2>5 DEF CodeInv, A!Confirming
    <3>2. ~A!Busy /\ spent = 0
      BY <1>t, <3>1 DEF OneWay
    <3>3. ~A!Confirming' /\ \A g, h \in Confirms : confirm'[g].at # "authorize"
      BY <2>1, <2>2, <3>1 DEF OneWay, A!Confirming
    <3> QED
      BY <2>1, <3>1, <3>2, <3>3 DEF OneWay, InRace, A!Busy, A!Is
  <2> QED
    BY <2>1, <2>3, <2>4, <2>5 DEF CodeInv
<1> QED
  BY <1>1, <1>2

\* The code runs out, or nothing happens.
LEMMA CodeFades ==
  ASSUME CodeInv, A!Expire \/ A!KeyExpire \/ UNCHANGED codeVars PROVE CodeInv'
<1>1. /\ rec' \in {rec, None} /\ expired' \in {expired, TRUE}
      /\ UNCHANGED <<asked, xchg, confirm, created, spent, overlap>>
  BY DEF A!Expire, A!KeyExpire, codeVars
<1>2. A!TypeOK' /\ Paid'
  BY <1>1 DEF CodeInv, A!TypeOK, Paid
<1>3. OneWay => OneWay'
  BY <1>1 DEF OneWay, InRace, A!Is, A!Busy, A!Confirming
<1> QED
  BY <1>1, <1>2, <1>3 DEF CodeInv

\* CodeInv is inductive.
LEMMA StepCode == CodeInv /\ CodeStep => CodeInv'
BY ExchangeLooks, ConsumeCode, CreateOne, IssueCode, ConfirmCode, CodeFades DEF CodeStep, ExchangeStep

(***************************************************************************)
(* Every step of Grants is one of the definitions' and one of the code's.  *)
(***************************************************************************)
AskStep(a) ==
  BeginAsk(a) \/ BeginPoll(a) \/ GetSets(a) \/ SetsArrive(a) \/ FindClient(a) \/ CreateGrant(a) \/ FailAsk(a)

\* The codes, but for the exchanges that ask for definitions.
CodesMove ==
  \/ Code \/ CodeExpire
  \/ \E e \in Exchanges : ExchangeNext(e)
  \/ \E scope \in Asked : DeviceOver(scope)

NarrowStep(e) == Narrow(e) \/ NarrowRows(e) \/ FailExchange(e)

AdminStep(d) ==
  \/ BeginAdmin(d) \/ AdminSets(d) \/ SetAllowedScopes(d) \/ DeleteApp(d)
  \/ WriteScopes(d) \/ ScopesWritten(d)

\* Next, by who takes the step.
LEMMA NextSteps ==
  [Next]_vars => \/ \E a \in Asks : AskStep(a)
                 \/ \E e \in Exchanges : NarrowStep(e)
                 \/ CodesMove
                 \/ \E d \in Admins : AdminStep(d)
                 \/ ScopesElsewhere
                 \/ UNCHANGED vars
BY DEF Next, AskNext, AskStep, NarrowStep, AdminStep, CodesMove

\* Requests, exchanges and administrators are what reads the copy here.
LEMMA StepIsScopes == [Next]_vars => ScopesStep
<1> SUFFICES ASSUME [Next]_vars PROVE ScopesStep
  OBVIOUS
<1>1. ASSUME NEW a \in Asks, AskStep(a) PROVE ScopesStep
  <2>1. a \in Readers
    BY DEF Readers
  <2> QED
    BY <1>1, <2>1 DEF AskStep, BeginAsk, BeginPoll, GetSets, SetsArrive, FindClient, CreateGrant, FailAsk,
                      ScopesStep
<1>2. ASSUME NEW e \in Exchanges, NarrowStep(e) PROVE ScopesStep
  <2>1. e \in Readers
    BY DEF Readers
  <2> QED
    BY <1>2, <2>1 DEF NarrowStep, Narrow, NarrowRows, FailExchange, ScopesStep
<1>3. ASSUME NEW d \in Admins, AdminStep(d) PROVE ScopesStep
  <2>1. d \in Readers
    BY DEF Readers
  <2> QED
    BY <1>3, <2>1 DEF AdminStep, BeginAdmin, AdminSets, SetAllowedScopes, DeleteApp, WriteScopes,
                      ScopesWritten, ScopesStep
<1>4. CASE CodesMove \/ ScopesElsewhere \/ UNCHANGED vars
  BY <1>4 DEF CodesMove, Code, CodeExpire, ExchangeNext, DeviceOver, ScopesElsewhere, vars, ScopesStep
<1> QED
  BY <1>1, <1>2, <1>3, <1>4, NextSteps

\* The copy of the definitions is a copy as LocalCopy has it: nothing else of
\* the process touches `cache' of scopeRepo.ts.
THEOREM GrantsKeepScopeCopy == Spec => S!C!Spec
<1>1. Init => S!C!Init
  BY DEF Init, S!Init
<1>2. ASSUME ScopesStep PROVE [S!C!Next]_(S!C!vars)
  BY <1>2
  DEF ScopesStep, S!Select, S!Store, S!Drop, S!CreateOrDelete, S!Written, S!AnswerLost,
      S!WriteElsewhere, S!CopyExpire, scopeVars, S!C!Next, S!C!vars
<1>3. [Next]_vars => [S!C!Next]_(S!C!vars)
  BY <1>2, StepIsScopes
<1> QED BY <1>1, <1>3, PTL DEF Spec, S!C!Spec

\* narrowScope answers an exchange yes or no.
LEMMA NarrowedEither ==
  ASSUME NEW e \in Exchanges, NEW rows, Narrowed(e, rows)
  PROVE  \E granted \in BOOLEAN : A!Narrowed(e, granted)
BY DEF Narrowed, S!Within

\* The code is issued for a scope that may be asked for; the rest is AuthCode's.
LEMMA StepIsCode == RequestsInv /\ [Next]_vars => CodeStep
<1> SUFFICES ASSUME RequestsInv, [Next]_vars PROVE CodeStep
  OBVIOUS
<1>1. ASSUME NEW a \in Asks, AskStep(a) PROVE CodeStep
  <2>1. CASE CreateGrant(a) /\ A!Create(ask[a].scope)
    <3>1. ask[a].scope \in Asked
      BY <2>1 DEF CreateGrant, RequestsInv, AskOK
    <3> QED
      BY <2>1, <3>1 DEF CodeStep
  <2>2. CASE UNCHANGED codeVars
    BY <2>2 DEF CodeStep
  <2> QED
    BY <1>1, <2>1, <2>2 DEF AskStep, BeginAsk, BeginPoll, GetSets, SetsArrive, FindClient, CreateGrant, FailAsk
<1>2. ASSUME NEW e \in Exchanges, NarrowStep(e) PROVE CodeStep
  BY <1>2, NarrowedEither
     DEF NarrowStep, Narrow, NarrowRows, FailExchange, CodeStep, ExchangeStep
<1>3. CASE CodesMove
  BY <1>3 DEF CodesMove, Code, CodeExpire, ExchangeNext, DeviceOver, CodeStep, ExchangeStep
<1>4. ASSUME NEW d \in Admins, AdminStep(d) PROVE CodeStep
  BY <1>4 DEF AdminStep, BeginAdmin, AdminSets, SetAllowedScopes, DeleteApp, WriteScopes,
              ScopesWritten, CodeStep
<1>5. CASE ScopesElsewhere \/ UNCHANGED vars
  BY <1>5 DEF ScopesElsewhere, vars, CodeStep
<1> QED
  BY <1>1, <1>2, <1>3, <1>4, <1>5, NextSteps

(***************************************************************************)
(* The requests.                                                           *)
(***************************************************************************)
\* The rows a decision is taken with: they may be old, but exempt nothing new.
Exempting(rows) ==
  /\ rows \in Tables
  /\ S!SystemNames(rows) \subseteq S!SystemNames(kind)
  /\ rows[Offline] = "system"

\* What is asked for, with offline_access added.
LEMMA FinalScope ==
  ASSUME NEW w \in Wishes
  PROVE  Final(w) \in Asked /\ Final(w) \in SUBSET Names /\ Final(w) = w \cup {Offline}
BY RequestsAssumption, OwnedAssumption DEF Final, Asked

\* A request at its start is well formed, and so is the end of one.
LEMMA IdleRequest ==
  /\ Idle \in Request /\ Idle.at = "idle" /\ Idle.list = {} /\ Idle.user = None /\ Idle.scope = {}
  /\ DOMAIN Idle = {"at", "list", "rows", "user", "scope"}
BY DEF Idle, Request

\* One request has moved, and the copy with it.
LEMMA AskMoves ==
  ASSUME RequestsInv, NEW a \in Asks, NEW new, ask' = [ask EXCEPT ![a] = new], AskOK(a)',
         Grows, UNCHANGED world,
         \A q \in Readers \ {a} : (fill'[q] = None) = (fill[q] = None)
  PROVE  ask' = [b \in Asks |-> ask'[b]] /\ \A b \in Asks : AskOK(b)'
<1>1. ask = [b \in Asks |-> ask[b]]
  BY DEF RequestsInv
<1>2. ask' = [b \in Asks |-> ask'[b]] /\ \A b \in Asks \ {a} : ask'[b] = ask[b]
  BY <1>1
<1>3. ASSUME NEW b \in Asks \ {a} PROVE AskOK(b)'
  <2>1. AskOK(b) /\ ask'[b] = ask[b] /\ (fill'[b] = None) = (fill[b] = None)
    BY <1>2 DEF RequestsInv, Readers
  <2>2. Allowed(ask[b].user) \subseteq Allowed(ask[b].user)'
    BY DEF Allowed, Grows
  <2> QED
    BY <2>1, <2>2 DEF AskOK, Allowed, Grows, Polls
<1> QED
  BY <1>2, <1>3

\* None has.
LEMMA AskStays ==
  ASSUME RequestsInv, UNCHANGED <<ask, world>>, Grows,
         \A a \in Asks : (fill'[a] = None) = (fill[a] = None)
  PROVE  ask' = [b \in Asks |-> ask'[b]] /\ \A b \in Asks : AskOK(b)'
<1>1. ASSUME NEW b \in Asks PROVE AskOK(b)'
  BY <1>1 DEF RequestsInv, AskOK, Allowed, Grows, Polls
<1> QED
  BY <1>1 DEF RequestsInv

\* The decision: a grant within what the user has, or none.
LEMMA Decided ==
  ASSUME RequestsInv, NEW a \in Asks, NEW rows, NEW list, Decide(a, rows, list),
         world.what = "issue" => Exempting(rows)', world.what # "issue" => ask[a].user = None,
         fill'[a] = None, UNCHANGED world
  PROVE  \E new : ask' = [ask EXCEPT ![a] = new] /\ AskOK(a)'
<1>1. ask = [b \in Asks |-> ask[b]] /\ ask[a] \in Request /\ ask[a].user \in Users \cup {None}
  BY DEF RequestsInv, AskOK, Request
<1>2. PICK w \in Wishes :
        ask' = [ask EXCEPT ![a] =
                  IF IF world.what = "issue"
                     THEN /\ S!NamesOf(rows) # {} => w \subseteq S!NamesOf(rows)
                          /\ S!Within(rows, w, Owned[ask[a].user])
                     ELSE w \subseteq S!MayAsk(rows, list)
                  THEN [Idle EXCEPT !.at = "create", !.scope = Final(w), !.user = ask[a].user]
                  ELSE Idle]
  BY DEF Decide
<1> DEFINE new == [Idle EXCEPT !.at = "create", !.scope = Final(w), !.user = ask[a].user]
<1>3. CASE ask' = [ask EXCEPT ![a] = Idle]
  <2>1. ask'[a] = Idle
    BY <1>1, <1>3
  <2>2. AskOK(a)'
    BY <2>1, IdleRequest DEF AskOK, Polls
  <2> QED
    BY <1>3, <2>2
<1>4. CASE /\ ask' = [ask EXCEPT ![a] = new]
           /\ world.what = "issue" => S!Within(rows, w, Owned[ask[a].user])
  <2>1. /\ new \in Request /\ new.at = "create" /\ new.scope = Final(w) /\ new.user = ask[a].user
    BY <1>1, FinalScope DEF Idle, Request
  <2>2. ask'[a] = new
    BY <1>1, <1>4
  <2> HIDE DEF new
  <2>3. ASSUME world.what = "issue" PROVE Final(w) \subseteq Allowed(ask[a].user)'
    <3>1. w \subseteq Allowed(ask[a].user)'
      \* SYSTEM_SCOPES does not stand in for the definitions.
      <4>1. S!SystemSet(rows) = S!SystemNames(rows)
        BY <2>3, OwnedAssumption DEF Exempting, S!SystemNames, S!SystemSet
      <4> QED
        BY <1>4, <2>1, <2>2, <2>3, <4>1 DEF S!Within, Exempting, Allowed
    <3> QED
      BY <3>1, FinalScope DEF Allowed
  <2>4. AskOK(a)'
    BY <2>1, <2>2, <2>3, FinalScope DEF AskOK, Allowed, Polls
  <2> QED
    BY <1>4, <2>4
<1> QED
  BY <1>2, <1>3, <1>4

\* The definitions have arrived.
LEMMA HasRows ==
  ASSUME RequestsInv, NEW a \in Asks, NEW rows, HaveRows(a, rows), Exempting(rows)',
         fill'[a] = None, UNCHANGED world
  PROVE  \E new : ask' = [ask EXCEPT ![a] = new] /\ AskOK(a)'
<1>1. ask = [b \in Asks |-> ask[b]] /\ ask[a] \in Request
  BY DEF RequestsInv, AskOK
<1>2. CASE ~Polls(a) /\ world.what \in {"device", "machine"}
  <2> DEFINE new == [ask[a] EXCEPT !.at = "client", !.rows = rows]
  <2>1. ask' = [ask EXCEPT ![a] = new]
    BY <1>1, <1>2 DEF HaveRows
  <2>2. new \in Request /\ new.at = "client" /\ new.user = ask[a].user
    BY <1>1 DEF Request, Exempting
  <2>3. ask'[a] = new
    BY <1>1, <2>1
  <2> HIDE DEF new
  <2>4. ask[a].user = None
    BY <1>2 DEF Polls, RequestsInv, AskOK
  <2>5. AskOK(a)'
    BY <1>2, <2>2, <2>3, <2>4 DEF AskOK, Polls
  <2> QED
    BY <2>1, <2>5
<1>3. CASE world.what \notin {"device", "machine"}
  <2>1. world.what # "issue" => ask[a].user = None
    BY <1>3 DEF RequestsInv, AskOK
  <2>2. Decide(a, rows, ask[a].list)
    BY <1>3 DEF HaveRows, Polls
  <2> QED
    BY <2>1, <2>2, Decided
<1>4. CASE Polls(a)
  <2> DEFINE new == [Idle EXCEPT !.at = "create", !.scope = ask[a].scope, !.user = ask[a].user]
  <2>1. ask' = [ask EXCEPT ![a] = IF S!Within(rows, ask[a].scope, Owned[ask[a].user]) THEN new ELSE Idle]
    BY <1>4 DEF HaveRows, NarrowPoll, Polls
  <2>2. /\ new \in Request /\ new.at = "create" /\ new.scope = ask[a].scope
        /\ new.user = ask[a].user /\ ask[a].scope \in Asked
    BY <1>1, <1>4 DEF Idle, Request, RequestsInv, AskOK
  <2> HIDE DEF new
  <2>3. CASE S!Within(rows, ask[a].scope, Owned[ask[a].user])
    <3>1. ask' = [ask EXCEPT ![a] = new] /\ ask'[a] = new
      BY <1>1, <2>1, <2>3
    <3>2. S!SystemSet(rows) = S!SystemNames(rows)
      BY OwnedAssumption DEF Exempting, S!SystemNames, S!SystemSet
    <3>3. ask[a].scope \subseteq Owned[ask[a].user] \cup S!SystemNames(kind')
      BY <2>3, <3>2 DEF S!Within, Exempting
    <3>4. AskOK(a)'
      BY <1>4, <2>2, <3>1, <3>3 DEF AskOK, Allowed, Polls
    <3> QED
      BY <3>1, <3>4
  <2>4. CASE ~S!Within(rows, ask[a].scope, Owned[ask[a].user])
    <3>1. ask' = [ask EXCEPT ![a] = Idle] /\ ask'[a] = Idle
      BY <1>1, <2>1, <2>4
    <3>2. AskOK(a)'
      BY <3>1, IdleRequest DEF AskOK, Polls
    <3> QED
      BY <3>1, <3>2
  <2> QED
    BY <2>3, <2>4
<1> QED
  BY <1>2, <1>3, <1>4

\* A step of a request leaves the fills of the others alone.
LEMMA AskFills ==
  ASSUME ScopesInv, RequestsInv, NEW a \in Asks, AskStep(a)
  PROVE  \A q \in Readers \ {a} : fill'[q] = fill[q]
<1>1. a \in Readers
  BY DEF Readers
<1> QED
  BY <1>1, CopyStep DEF AskStep, BeginAsk, BeginPoll, GetSets, SetsArrive, FindClient, CreateGrant, FailAsk,
                        scopeVars

\* Every step of a request keeps it well formed, and within the user's scopes.
LEMMA AskStepNew ==
  ASSUME ScopesInv, ScopesInv', RequestsInv, Grows, NEW a \in Asks, AskStep(a)
  PROVE  \E new : ask' = [ask EXCEPT ![a] = new] /\ AskOK(a)'
<1>1. /\ ask = [b \in Asks |-> ask[b]] /\ ask[a] \in Request /\ AskOK(a) /\ a \in Readers
      /\ app \in {None} \cup SUBSET Names
  BY DEF RequestsInv, AskOK, Readers
<1>w. UNCHANGED world
  BY DEF AskStep, BeginAsk, BeginPoll, GetSets, SetsArrive, FindClient, CreateGrant, FailAsk
<1>2. CASE BeginAsk(a) \/ BeginPoll(a)
  <2>1. \E new \in Request :
          /\ ask' = [ask EXCEPT ![a] = new] /\ new.at = "sets"
          /\ world.what = "issue" => new.user \in Users
          /\ new.user # None => world.what \in {"device", "issue"}
          /\ new.user # None /\ world.what = "device" => new.scope \in Asked
    <3>1. CASE BeginAsk(a) /\ world.what # "issue"
      <4>1. PICK list \in SUBSET Names :
              ask' = [ask EXCEPT ![a] = [Idle EXCEPT !.at = "sets", !.list = list]]
        BY <1>1, <3>1 DEF BeginAsk
      <4>2. /\ [Idle EXCEPT !.at = "sets", !.list = list] \in Request
            /\ [Idle EXCEPT !.at = "sets", !.list = list].at = "sets"
            /\ [Idle EXCEPT !.at = "sets", !.list = list].user = None
        BY DEF Idle, Request
      <4> QED
        BY <3>1, <4>1, <4>2
    <3>2. CASE BeginAsk(a) /\ world.what = "issue"
      <4>1. PICK u \in Users : ask' = [ask EXCEPT ![a] = [Idle EXCEPT !.at = "sets", !.user = u]]
        BY <3>2 DEF BeginAsk
      <4>2. /\ [Idle EXCEPT !.at = "sets", !.user = u] \in Request
            /\ [Idle EXCEPT !.at = "sets", !.user = u].at = "sets"
            /\ [Idle EXCEPT !.at = "sets", !.user = u].user = u
        BY DEF Idle, Request
      <4> QED
        BY <3>2, <4>1, <4>2
    <3>3. CASE BeginPoll(a)
      <4>1. PICK scope \in devices, u \in Users :
              ask' = [ask EXCEPT ![a] = [Idle EXCEPT !.at = "sets", !.scope = scope, !.user = u]]
        BY <3>3 DEF BeginPoll
      <4>2. scope \in Asked /\ scope \in SUBSET Names
        BY FinalScope DEF RequestsInv, Asked
      <4>3. /\ [Idle EXCEPT !.at = "sets", !.scope = scope, !.user = u] \in Request
            /\ [Idle EXCEPT !.at = "sets", !.scope = scope, !.user = u].at = "sets"
            /\ [Idle EXCEPT !.at = "sets", !.scope = scope, !.user = u].user = u
            /\ [Idle EXCEPT !.at = "sets", !.scope = scope, !.user = u].scope = scope
        BY <4>2 DEF Idle, Request
      <4>4. world.what = "device"
        BY <3>3 DEF BeginPoll
      <4> QED
        BY <4>1, <4>2, <4>3, <4>4
    <3> QED
      BY <1>2, <3>1, <3>2, <3>3
  <2>2. PICK new \in Request :
          /\ ask' = [ask EXCEPT ![a] = new] /\ new.at = "sets"
          /\ world.what = "issue" => new.user \in Users
          /\ new.user # None => world.what \in {"device", "issue"}
          /\ new.user # None /\ world.what = "device" => new.scope \in Asked
    BY <2>1
  <2>3. ask'[a] = new
    BY <1>1, <2>2
  <2>4. fill'[a] = None
    BY <1>1, <1>2 DEF BeginAsk, BeginPoll, AskOK, scopeVars
  <2>5. AskOK(a)'
    BY <1>w, <2>2, <2>3, <2>4 DEF AskOK, Polls
  <2> QED
    BY <2>2, <2>5
<1>3. CASE GetSets(a)
  <2>1. fill[a] = None /\ (world.what = "issue" => ask[a].user \in Users)
    BY <1>1, <1>3 DEF GetSets, AskOK
  <2>2. CASE copy # None /\ HaveRows(a, copy.rows) /\ UNCHANGED scopeVars
    <3>1. Exempting(copy.rows)' /\ copy' = copy /\ fill'[a] = None
      BY <2>1, <2>2 DEF ScopesInv, RowsOK, Exempting, Copies, scopeVars
    <3>2. \A rows : rows = copy.rows => Exempting(rows)'
      BY <3>1 DEF Exempting
    <3> QED
      BY <1>w, <2>2, <3>1, <3>2, HasRows
  <2>3. CASE S!Select(a) /\ ask' = [ask EXCEPT ![a].at = "rows"]
    <3> DEFINE new == [ask[a] EXCEPT !.at = "rows"]
    <3>1. ask' = [ask EXCEPT ![a] = new]
      BY <1>1, <2>3
    <3>2. new \in Request /\ new.at = "rows" /\ new.user = ask[a].user /\ new.scope = ask[a].scope
      BY <1>1 DEF Request
    <3>3. ask'[a] = new
      BY <1>1, <3>1
    <3>4. fill'[a] # None
      BY <1>1, <2>3, CopyStep, CopiesAreNotNone
    <3> HIDE DEF new
    <3>5. AskOK(a)'
      BY <1>w, <1>1, <2>1, <3>2, <3>3, <3>4 DEF AskOK, Polls
    <3> QED
      BY <3>1, <3>5
  <2> QED
    BY <1>3, <2>2, <2>3 DEF GetSets
<1>4. CASE SetsArrive(a)
  <2>1. fill[a] # None /\ fill'[a] = None
    BY <1>1, <1>4, CopyStep DEF SetsArrive
  <2>2. \A rows : rows = fill[a].rows => Exempting(rows)'
    BY <1>1, <2>1 DEF ScopesInv, RowsOK, Exempting, Grows, Copies
  <2> QED
    BY <1>4, <1>w, <2>1, <2>2, HasRows DEF SetsArrive
<1>5. CASE FindClient(a)
  <2>1. world.what # "issue" /\ ask[a].user = None /\ fill'[a] = None
    BY <1>1, <1>5 DEF FindClient, AskOK, scopeVars
  <2> QED
    BY <1>5, <1>w, <2>1, Decided DEF FindClient
<1>6. CASE CreateGrant(a) \/ FailAsk(a)
  <2>1. ask' = [ask EXCEPT ![a] = Idle]
    BY <1>6 DEF CreateGrant, FailAsk
  <2>2. fill'[a] = None
    BY <1>1, <1>6, CopyStep DEF CreateGrant, FailAsk, AskOK, scopeVars
  <2>3. ask'[a] = Idle
    BY <1>1, <2>1
  <2>4. AskOK(a)'
    BY <2>2, <2>3, IdleRequest DEF AskOK, Polls
  <2> QED
    BY <2>1, <2>4
<1> QED
  BY <1>2, <1>3, <1>4, <1>5, <1>6 DEF AskStep

(***************************************************************************)
(* The exchanges, and the administrators.                                  *)
(***************************************************************************)
Through(e) == xchg[e].at \in {"reread", "consume", "session"}

\* Past narrowScope nothing changes what the exchange is for.
LEMMA StillThrough ==
  ASSUME RequestsInv, Grows, NEW e \in Exchanges,
         Through(e)' => Through(e) /\ xchg'[e].user = xchg[e].user /\ asked' = asked
  PROVE  ExchangeOK(e)'
<1>1. ExchangeOK(e)
  BY DEF RequestsInv
<1> QED
  BY <1>1 DEF ExchangeOK, Through, Allowed, Grows

\* narrowScope lets an exchange through with what its user has.
LEMMA NarrowOK ==
  ASSUME ScopesInv, ScopesInv', CodeInv, RequestsInv, Grows, NEW e \in Exchanges, NarrowStep(e),
         NEW x \in Exchanges
  PROVE  ExchangeOK(x)'
<1>t. xchg \in [Exchanges -> A!Exchange]
  BY CodeTyped
<1>1. ASSUME NEW rows, Narrowed(e, rows), Exempting(rows)' PROVE ExchangeOK(x)'
  <2>1. asked' = asked
    BY <1>1 DEF Narrowed, A!Narrowed
  <2>2. \/ A!Goto(e, "reread") /\ S!Within(rows, asked, Owned[xchg[e].user])
        \/ A!Answer(e)
    BY <1>1 DEF Narrowed, A!Narrowed
  <2>3. CASE x # e \/ A!Answer(e)
    <3>1. Through(x)' => xchg'[x] = xchg[x]
      BY <1>t, <2>2, <2>3 DEF A!Goto, A!Answer, Through
    <3> QED
      BY <2>1, <3>1, StillThrough DEF Through
  <2>4. CASE x = e /\ A!Goto(e, "reread") /\ S!Within(rows, asked, Owned[xchg[e].user])
    <3>1. xchg'[e].user = xchg[e].user
      BY <1>t, <2>4 DEF A!Goto, A!Exchange
    <3>2. S!SystemSet(rows) = S!SystemNames(rows)
      BY <1>1, OwnedAssumption DEF Exempting, S!SystemNames, S!SystemSet
    <3>3. asked \subseteq Owned[xchg[e].user] \cup S!SystemNames(kind')
      BY <1>1, <2>4, <3>2 DEF S!Within, Exempting
    <3> QED
      BY <2>1, <2>4, <3>1, <3>3 DEF ExchangeOK, Allowed
  <2> QED
    BY <2>2, <2>3, <2>4
<1>2. ASSUME A!AwaitRows(e) \/ A!Fail(e) PROVE ExchangeOK(x)'
  <2>1. (Through(x)' => Through(x) /\ xchg'[x] = xchg[x]) /\ asked' = asked
    BY <1>t, <1>2 DEF A!AwaitRows, A!Fail, A!Goto, A!Answer, Through, A!Exchange
  <2> QED
    BY <2>1, StillThrough
<1>3. CASE copy # None /\ Narrowed(e, copy.rows) /\ UNCHANGED scopeVars
  <2>1. \A rows : rows = copy.rows => Exempting(rows)'
    BY <1>3 DEF ScopesInv, RowsOK, Exempting, Copies, scopeVars
  <2> QED
    BY <1>1, <1>3, <2>1
<1>4. CASE S!Store(e) /\ Narrowed(e, fill[e].rows)
  <2>1. e \in Readers
    BY DEF Readers
  <2>2. fill[e] # None
    BY <1>4, <2>1, CopyStep
  <2>3. \A rows : rows = fill[e].rows => Exempting(rows)'
    BY <2>1, <2>2 DEF ScopesInv, RowsOK, Exempting, Grows, Copies
  <2> QED
    BY <1>1, <1>4, <2>3
<1> QED
  BY <1>2, <1>3, <1>4 DEF NarrowStep, Narrow, NarrowRows, FailExchange

\* So does whatever else happens to the code.
LEMMA CodeOK ==
  ASSUME CodeInv, RequestsInv, Grows, NEW x \in Exchanges,
         \/ CodesMove \/ UNCHANGED codeVars
         \/ \E scope \in Asked : A!Create(scope)
  PROVE  ExchangeOK(x)'
<1>t. xchg \in [Exchanges -> A!Exchange]
  BY CodeTyped
<1>1. ASSUME NEW scope, A!Create(scope) PROVE ExchangeOK(x)'
  <2>1. xchg'[x].at = "idle"
    BY <1>1 DEF A!Create, CodeInv
  <2> QED
    BY <2>1 DEF ExchangeOK
<1>2. ASSUME NEW e \in Exchanges,
             A!Begin(e) \/ A!ConsumeGet(e) \/ A!ConsumeSet(e) \/ A!CreateSession(e) \/ A!Issue(e)
      PROVE  ExchangeOK(x)'
  <2>1. asked' = asked
    BY <1>2 DEF A!Begin, A!ConsumeGet, A!ConsumeSet, A!CreateSession, A!Issue
  <2>2. CASE x # e
    <3>1. xchg'[x] = xchg[x]
      BY <1>t, <1>2, <2>2 DEF A!Begin, A!ConsumeGet, A!ConsumeSet, A!CreateSession, A!Issue,
                              A!Goto, A!Answer
    <3> QED
      BY <2>1, <3>1, StillThrough DEF Through
  <2>3. CASE x = e
    <3>1. CASE A!Begin(e)
      BY <1>t, <2>1, <2>3, <3>1, StillThrough DEF A!Begin, A!Answer, Through
    <3>2. CASE A!ConsumeGet(e) \/ A!ConsumeSet(e) \/ A!CreateSession(e) \/ A!Issue(e)
      <4>1. Through(e)' => Through(e) /\ xchg'[e].user = xchg[e].user
        BY <1>t, <3>2 DEF A!ConsumeGet, A!ConsumeSet, A!CreateSession, A!Issue, A!Goto, A!Answer,
                          Through, A!Exchange
      <4> QED
        BY <2>1, <2>3, <4>1, StillThrough
    <3> QED
      BY <1>2, <3>1, <3>2
  <2> QED
    BY <2>2, <2>3
<1>3. ASSUME \/ \E f \in Confirms : A!AuthorizeGet(f) \/ A!AuthorizeSet(f)
             \/ A!Expire \/ A!KeyExpire \/ UNCHANGED codeVars
      PROVE  ExchangeOK(x)'
  <2>1. UNCHANGED <<xchg, asked>>
    BY <1>3 DEF A!AuthorizeGet, A!AuthorizeSet, A!Expire, A!KeyExpire, codeVars
  <2> QED
    BY <2>1, StillThrough DEF Through
<1> QED
  BY <1>1, <1>2, <1>3 DEF CodesMove, Code, CodeExpire, ExchangeNext, DeviceOver

\* The administrators' requests, and what they make of the client's row.
LEMMA AdminOK ==
  ASSUME RequestsInv, NEW d \in Admins, AdminStep(d)
  PROVE  /\ admin' \in [Admins -> AdminRequest] /\ app' \in {None} \cup SUBSET Names
         /\ UNCHANGED <<ask, devices, world>>
<1>1. /\ admin \in [Admins -> AdminRequest] /\ app \in {None} \cup SUBSET Names
      /\ admin[d] \in AdminRequest
  BY DEF RequestsInv
<1>2. AdminIdle \in AdminRequest
  BY DEF AdminIdle, AdminRequest
<1>3. ASSUME NEW pc \in {"idle", "sets", "rows", "update", "delete", "write"}, AdminAt(d, pc)
      PROVE  admin' \in [Admins -> AdminRequest]
  BY <1>1, <1>3 DEF AdminAt, AdminRequest
<1>4. ASSUME NEW rows, ListAgainst(d, rows) PROVE admin' \in [Admins -> AdminRequest]
  <2>1. PICK list \in Lists :
          admin' = [admin EXCEPT ![d] =
                      IF S!NamesOf(rows) # {} => list \subseteq S!NamesOf(rows)
                      THEN [at |-> "update", list |-> list] ELSE AdminIdle]
    BY <1>4 DEF ListAgainst
  <2>2. [at |-> "update", list |-> list] \in AdminRequest
    BY RequestsAssumption DEF AdminRequest
  <2> QED
    BY <1>1, <1>2, <2>1, <2>2
<1>5. CASE BeginAdmin(d) \/ AdminSets(d) \/ WriteScopes(d) \/ ScopesWritten(d)
  <2>1. admin' \in [Admins -> AdminRequest]
    BY <1>3, <1>4, <1>5 DEF BeginAdmin, AdminSets, WriteScopes, ScopesWritten
  <2> QED
    BY <1>1, <1>5, <2>1 DEF BeginAdmin, AdminSets, WriteScopes, ScopesWritten
<1>6. CASE SetAllowedScopes(d) \/ DeleteApp(d)
  <2>1. admin' = [admin EXCEPT ![d] = AdminIdle] /\ app' \in {app, None, admin[d].list}
    BY <1>6 DEF SetAllowedScopes, DeleteApp
  <2>2. admin[d].list \in SUBSET Names
    BY <1>1 DEF AdminRequest
  <2> QED
    BY <1>1, <1>2, <1>6, <2>1, <2>2 DEF SetAllowedScopes, DeleteApp
<1> QED
  BY <1>5, <1>6 DEF AdminStep

\* Whoever else reads or writes the table leaves every request its rows.
LEMMA OthersFills ==
  ASSUME ScopesInv, NEW a \in Asks,
         \/ \E r \in Exchanges \cup Admins : S!Select(r) \/ S!Store(r) \/ S!Drop(r)
         \/ \E d \in Admins : S!CreateOrDelete(d) \/ S!Written(d) \/ S!AnswerLost(d)
         \/ S!WriteElsewhere \/ S!CopyExpire \/ UNCHANGED scopeVars
  PROVE  (fill'[a] = None) = (fill[a] = None)
<1>t. a \in Readers /\ fill \in [Readers -> Copies \cup {None}]
  BY ScopesTyped DEF Readers
<1>1. ASSUME NEW r \in Exchanges \cup Admins, S!Select(r) \/ S!Store(r) \/ S!Drop(r)
      PROVE  fill'[a] = fill[a]
  <2>1. r \in Readers /\ r # a
    BY RequestsAssumption DEF Readers
  <2> QED
    BY <1>1, <1>t, <2>1, CopyStep
<1>2. ASSUME fill' = S!C!AllLate PROVE (fill'[a] = None) = (fill[a] = None)
  BY <1>2, <1>t, LateCopy DEF S!C!AllLate
<1>3. CASE S!WriteElsewhere \/ \E d \in Admins : S!Written(d) \/ S!AnswerLost(d)
  BY <1>2, <1>3 DEF S!WriteElsewhere, S!C!WriteElsewhere, S!Written, S!C!InvalidateCache,
                    S!AnswerLost, S!C!LoseAnswer
<1>4. CASE S!CopyExpire \/ UNCHANGED scopeVars \/ \E d \in Admins : S!CreateOrDelete(d)
  BY <1>4 DEF S!CopyExpire, S!C!Expire, scopeVars, S!CreateOrDelete, S!C!Commit
<1> QED
  BY <1>1, <1>3, <1>4

(***************************************************************************)
(* The three invariants together.                                          *)
(***************************************************************************)
\* Nobody at work, nothing granted.
LEMMA InitRequests == Init => RequestsInv
<1> SUFFICES ASSUME Init PROVE RequestsInv
  OBVIOUS
<1>1. /\ fill = [r \in Readers |-> None] /\ app = {} /\ world \in Worlds
      /\ devices = {} /\ ask = [a \in Asks |-> Idle] /\ admin = [d \in Admins |-> AdminIdle]
      /\ xchg = [e \in Exchanges |-> [at |-> "idle", user |-> None]]
  BY DEF Init, S!Init, S!C!Init, A!Init
<1>2. \A a \in Asks : AskOK(a)
  BY <1>1, IdleRequest DEF AskOK, Readers, Polls
<1>3. \A e \in Exchanges : ExchangeOK(e)
  BY <1>1 DEF ExchangeOK
<1>4. AdminIdle \in AdminRequest
  BY DEF AdminIdle, AdminRequest
<1> QED
  BY <1>1, <1>2, <1>3, <1>4 DEF RequestsInv

\* RequestsInv is preserved where the other two hold.
LEMMA StepRequests ==
  ASSUME ScopesInv, ScopesInv', CodeInv, RequestsInv, Grows, [Next]_vars
  PROVE  RequestsInv'
<1>i. /\ admin \in [Admins -> AdminRequest] /\ app \in {None} \cup SUBSET Names
      /\ world \in Worlds /\ devices \subseteq Asked
  BY DEF RequestsInv
<1>1. ASSUME NEW a \in Asks, AskStep(a) PROVE RequestsInv'
  <2>1. UNCHANGED <<app, admin, world>>
    BY <1>1 DEF AskStep, BeginAsk, BeginPoll, GetSets, SetsArrive, FindClient, CreateGrant, FailAsk
  <2>2. ask' = [b \in Asks |-> ask'[b]] /\ \A b \in Asks : AskOK(b)'
    <3>1. PICK new : ask' = [ask EXCEPT ![a] = new] /\ AskOK(a)'
      BY <1>1, AskStepNew
    <3>2. \A q \in Readers \ {a} : (fill'[q] = None) = (fill[q] = None)
      BY <1>1, AskFills
    <3> QED
      BY <2>1, <3>1, <3>2, AskMoves
  <2>3. UNCHANGED codeVars \/ \E scope \in Asked : A!Create(scope)
    <3>1. ask[a].at = "create" => ask[a].scope \in Asked
      BY DEF RequestsInv, AskOK
    <3> QED
      BY <1>1, <3>1
         DEF AskStep, BeginAsk, BeginPoll, GetSets, SetsArrive, FindClient, CreateGrant, FailAsk
  <2>4. \A e \in Exchanges : ExchangeOK(e)'
    BY <2>3, CodeOK
  <2>5. devices' \subseteq Asked
    BY <1>1, <1>i DEF AskStep, BeginAsk, BeginPoll, GetSets, SetsArrive, FindClient, CreateGrant,
                      FailAsk, RequestsInv, AskOK
  <2> QED
    BY <1>i, <2>1, <2>2, <2>4, <2>5 DEF RequestsInv
<1>2. ASSUME UNCHANGED <<app, ask, admin, world>>, devices' \subseteq devices, \A a \in Asks : (fill'[a] = None) = (fill[a] = None),
             \A e \in Exchanges : ExchangeOK(e)'
      PROVE  RequestsInv'
  <2>1. ask' = [b \in Asks |-> ask'[b]] /\ \A b \in Asks : AskOK(b)'
    BY <1>2, AskStays
  <2> QED
    BY <1>i, <1>2, <2>1 DEF RequestsInv
<1>3. ASSUME NEW e \in Exchanges, NarrowStep(e) PROVE RequestsInv'
  <2>1. UNCHANGED <<app, ask, admin, devices, world>>
    BY <1>3 DEF NarrowStep, Narrow, NarrowRows, FailExchange
  <2>2. \A a \in Asks : (fill'[a] = None) = (fill[a] = None)
    BY <1>3, OthersFills DEF NarrowStep, Narrow, NarrowRows, FailExchange
  <2> QED
    BY <1>2, <1>3, <2>1, <2>2, NarrowOK
<1>4. CASE CodesMove \/ ScopesElsewhere \/ UNCHANGED vars
  <2>1. UNCHANGED <<app, ask, admin, world>> /\ devices' \subseteq devices
    BY <1>4 DEF CodesMove, Code, CodeExpire, ExchangeNext, DeviceOver, ScopesElsewhere, vars
  <2>2. \A a \in Asks : (fill'[a] = None) = (fill[a] = None)
    BY <1>4, OthersFills DEF CodesMove, Code, CodeExpire, ExchangeNext, DeviceOver, ScopesElsewhere, vars
  <2>3. CodesMove \/ UNCHANGED codeVars
    BY <1>4 DEF ScopesElsewhere, vars
  <2> QED
    BY <1>2, <2>1, <2>2, <2>3, CodeOK
<1>5. ASSUME NEW d \in Admins, AdminStep(d) PROVE RequestsInv'
  <2>1. /\ admin' \in [Admins -> AdminRequest] /\ app' \in {None} \cup SUBSET Names
        /\ UNCHANGED <<ask, devices, world>>
    BY <1>5, AdminOK
  <2>2. \A a \in Asks : (fill'[a] = None) = (fill[a] = None)
    BY <1>5, OthersFills DEF AdminStep, BeginAdmin, AdminSets, SetAllowedScopes, DeleteApp,
                             WriteScopes, ScopesWritten
  <2>3. UNCHANGED codeVars
    BY <1>5 DEF AdminStep, BeginAdmin, AdminSets, SetAllowedScopes, DeleteApp, WriteScopes,
                ScopesWritten
  <2>4. \A e \in Exchanges : ExchangeOK(e)'
    BY <2>3, CodeOK
  <2>5. ask' = [b \in Asks |-> ask'[b]] /\ \A b \in Asks : AskOK(b)'
    BY <2>1, <2>2, AskStays
  <2> QED
    BY <1>i, <2>1, <2>4, <2>5 DEF RequestsInv
<1> QED
  BY <1>1, <1>3, <1>4, <1>5, NextSteps

\* Inv is inductive.
LEMMA StepInv == Inv /\ [Next]_vars => Inv' /\ Grows
<1> SUFFICES ASSUME Inv, [Next]_vars PROVE Inv' /\ Grows
  OBVIOUS
<1>1. ScopesInv /\ CodeInv /\ RequestsInv
  BY DEF Inv
<1>2. ScopesInv' /\ Grows
  BY <1>1, StepIsScopes, StepScopes
<1>3. CodeInv'
  BY <1>1, StepIsCode, StepCode
<1>4. RequestsInv'
  BY <1>1, <1>2, StepRequests
<1> QED
  BY <1>2, <1>3, <1>4 DEF Inv

(***************************************************************************)
(* The theorems.                                                           *)
(***************************************************************************)
\* What every request, exchange and administrator of a client knows between
\* two awaits, of the definitions, the code and its own list of scopes.
THEOREM GrantsInductive == Spec => []Inv
<1>1. Init => Inv
  BY InitScopes, InitCode, InitRequests DEF Inv
<1>2. Inv /\ [Next]_vars => Inv'
  BY StepInv
<1> QED
  BY <1>1, <1>2, PTL DEF Spec

\* Every state of the grants is well formed.
THEOREM GrantsTyped == Spec => []TypeOK
<1>1. Inv => TypeOK
  <2> SUFFICES ASSUME Inv PROVE TypeOK
    OBVIOUS
  <2>1. ScopesInv /\ CodeInv /\ RequestsInv
    BY DEF Inv
  <2>2. S!TypeOK /\ A!TypeOK
    BY <2>1 DEF ScopesInv, CodeInv
  <2>3. \A a \in Asks :
          /\ ask[a].at \in {"idle", "sets", "rows", "client", "create"}
          /\ ask[a].scope \subseteq Names /\ ask[a].list \subseteq Names
          /\ (ask[a].at = "rows") = (fill[a] # None)
          /\ ask[a].at \in {"sets", "rows"} /\ world.what = "issue" => ask[a].user \in Users
    BY <2>1 DEF RequestsInv, AskOK, Request
  <2>4. app \in {None} \cup SUBSET Names /\ devices \subseteq Asked
    BY <2>1 DEF RequestsInv
  <2>5. \A d \in Admins : admin[d].at \in {"idle", "sets", "rows", "update", "delete", "write"}
    BY <2>1 DEF RequestsInv, AdminRequest
  <2> QED
    BY <2>2, <2>3, <2>4, <2>5 DEF TypeOK
<1> QED
  BY <1>1, GrantsInductive, PTL

\* Every session was paid for with a use of the code.
THEOREM SessionsPaidFor == Spec => []PaidFor
<1>1. Inv => PaidFor
  BY DEF Inv, CodeInv, Paid, PaidFor, A!PaidFor
<1> QED
  BY <1>1, GrantsInductive, PTL

\* The one-time code of token.ts:94 buys two sessions only when two exchanges,
\* or two confirmations, overlapped.
THEOREM TwoSessionsOverlapped == Spec => []TwiceOnlyByOverlap
<1>1. Inv => TwiceOnlyByOverlap
  <2> SUFFICES ASSUME Inv, created = A!Many, ~overlap PROVE FALSE
    BY DEF TwiceOnlyByOverlap, A!TwiceOnlyByOverlap
  <2>1. CodeInv
    BY DEF Inv
  <2>2. OneWay /\ created <= spent /\ created \in 0 .. 2 /\ spent \in 0 .. 2
    BY <2>1, CodeTyped DEF CodeInv, Paid
  <2> QED
    BY <2>2 DEF OneWay, A!Many
<1> QED
  BY <1>1, GrantsInductive, PTL

\* Whatever definitions narrowScope or issue-token decided with, a session for
\* a user gets nothing that the company has not granted that user.
THEOREM GrantsWithinTheUser == Spec => []NothingBeyondTheUser
<1>1. Inv => NothingBeyondTheUser
  <2> SUFFICES ASSUME Inv, NEW g \in Granted PROVE g.scope \subseteq Allowed(g.user)
    BY DEF NothingBeyondTheUser, Allowed
  <2>1. RequestsInv
    BY DEF Inv
  <2>2. CASE \E e \in Exchanges : xchg[e].at = "session" /\ g = [user |-> xchg[e].user, scope |-> asked]
    BY <2>1, <2>2 DEF RequestsInv, ExchangeOK
  <2>3. CASE \E a \in Asks : /\ ask[a].at = "create" /\ ask[a].user # None
                            /\ g = [user |-> ask[a].user, scope |-> ask[a].scope]
    BY <2>1, <2>3 DEF RequestsInv, AskOK
  <2> QED
    BY <2>2, <2>3 DEF Granted
<1> QED
  BY <1>1, GrantsInductive, PTL

\* A used code stays used until Redis drops it, unless two handlers overlapped.
THEOREM UsedStaysUsed == Spec => ConsumedIsFinal
<1> DEFINE StaysUsed == A!Is("consumed") => overlap \/ rec' = None \/ rec'.status = "consumed"
<1>1. Inv /\ [Next]_vars => [StaysUsed]_(A!vars)
  <2> SUFFICES ASSUME Inv, [Next]_vars, A!Is("consumed"), ~overlap PROVE rec' = None \/ rec'.status = "consumed"
    OBVIOUS
  <2>1. CodeInv /\ RequestsInv
    BY DEF Inv
  <2>2. CodeStep
    BY <2>1, StepIsCode
  <2>3. asked # None /\ ~A!Confirming
    BY <2>1 DEF CodeInv, OneWay, A!Is
  <2>4. ASSUME rec' = rec PROVE rec'.status = "consumed"
    BY <2>4 DEF A!Is
  <2>5. ASSUME NEW e \in Exchanges, ExchangeStep(e) PROVE rec'.status = "consumed"
    BY <2>4, <2>5 DEF ExchangeStep, A!Begin, A!AwaitRows, A!ConsumeGet, A!ConsumeSet, A!CreateSession,
                      A!Issue, A!Fail, A!Narrowed
  <2>6. ASSUME NEW f \in Confirms, A!AuthorizeGet(f) \/ A!AuthorizeSet(f) PROVE FALSE
    BY <2>3, <2>6 DEF A!AuthorizeGet, A!AuthorizeSet, A!Is, A!Confirming
  <2>7. ASSUME NEW scope, A!Create(scope) PROVE FALSE
    BY <2>3, <2>7 DEF A!Create
  <2>8. CASE A!Expire \/ A!KeyExpire \/ UNCHANGED codeVars
    BY <2>4, <2>8 DEF A!Expire, A!KeyExpire, codeVars
  <2> QED
    BY <2>2, <2>5, <2>6, <2>7, <2>8 DEF CodeStep
<1> QED
  BY <1>1, GrantsInductive, PTL DEF Spec, ConsumedIsFinal, A!ConsumedIsFinal

\* Undefining a name takes it away from the client and gives it nothing: the
\* seeded system scope keeps the table from ever being empty of names, and of
\* system names, where the environment's lists would take over.
LEMMA UndefineNarrows ==
  ASSUME kind \in Tables, kind[Offline] = "system", NEW n \in Names, S!Undefine(n), NEW list
  PROVE  S!MayAsk(kind', list) \subseteq S!MayAsk(kind, list)
<1>1. /\ kind' \in Tables /\ kind[n] = "business" /\ kind'[n] = "absent"
      /\ \A m \in Names \ {n} : kind'[m] = kind[m]
  BY DEF S!Undefine, Tables, S!Kinds
<1>2. kind'[Offline] = "system"
  BY <1>1, OwnedAssumption
<1>3. S!SystemNames(kind') = S!SystemNames(kind)
  BY <1>1 DEF S!SystemNames
<1>4. S!NamesOf(kind') \subseteq S!NamesOf(kind) /\ Offline \in S!NamesOf(kind')
  BY <1>1, <1>2, OwnedAssumption DEF S!NamesOf
<1>5. S!GlobalAllowed(kind') = S!NamesOf(kind') /\ S!GlobalAllowed(kind) = S!NamesOf(kind)
  BY <1>4 DEF S!GlobalAllowed
<1>6. S!SystemSet(kind') = S!SystemSet(kind)
  BY <1>3 DEF S!SystemSet
<1> QED
  BY <1>4, <1>5, <1>6 DEF S!MayAsk

\* What the client may ask for never grows by deleting a scope (DELETE /scopes).
THEOREM DeletionNeverWidens == Spec => NeverWidened
<1> DEFINE Narrows ==
      (\A n \in Names : kind'[n] \in {kind[n], "absent"}) /\ kind' # kind /\ app # None
        => app' # None /\ S!MayAsk(kind', app') \subseteq S!MayAsk(kind, app)
<1>1. Inv /\ [Next]_vars => [Narrows]_vars
  <2> SUFFICES ASSUME Inv, [Next]_vars, \A n \in Names : kind'[n] \in {kind[n], "absent"},
                      kind' # kind, app # None
               PROVE  app' # None /\ S!MayAsk(kind', app') \subseteq S!MayAsk(kind, app)
    OBVIOUS
  <2>1. ScopesInv /\ RequestsInv /\ kind \in Tables /\ kind[Offline] = "system"
    BY ScopesTyped DEF Inv, ScopesInv
  <2>2. S!Change
    <3>1. ScopesStep
      BY StepIsScopes
    <3> QED
      BY <3>1 DEF ScopesStep, S!Select, S!Store, S!Drop, S!CreateOrDelete, S!Written, S!AnswerLost,
                  S!WriteElsewhere, S!CopyExpire, scopeVars
  <2>3. app' = app
    <3>1. ASSUME NEW d \in Admins, AdminStep(d) PROVE app' = app
      BY <3>1 DEF AdminStep, BeginAdmin, AdminSets, SetAllowedScopes, DeleteApp, WriteScopes,
                  ScopesWritten, scopeVars, S!Select, S!Store
    <3>2. ASSUME NEW a \in Asks, AskStep(a) PROVE app' = app
      BY <3>2 DEF AskStep, BeginAsk, BeginPoll, GetSets, SetsArrive, FindClient, CreateGrant, FailAsk
    <3>3. ASSUME NEW e \in Exchanges, NarrowStep(e) PROVE app' = app
      BY <3>3 DEF NarrowStep, Narrow, NarrowRows, FailExchange
    <3>4. CASE CodesMove \/ ScopesElsewhere \/ UNCHANGED vars
      BY <3>4 DEF CodesMove, Code, CodeExpire, ExchangeNext, DeviceOver, ScopesElsewhere, vars
    <3> QED
      BY <3>1, <3>2, <3>3, <3>4, NextSteps
  <2>4. PICK n \in Names : S!Define(n, "business") \/ S!Define(n, "system") \/ S!Undefine(n)
    BY <2>2 DEF S!Change
  <2>5. S!Undefine(n)
    BY <2>1, <2>4 DEF S!Define, Tables
  <2> QED
    BY <2>1, <2>3, <2>5, UndefineNarrows
<1> QED
  BY <1>1, GrantsInductive, PTL DEF Spec, NeverWidened

\* A deleted client (adminWeb.ts:201) that has no request and no code left never
\* gets one again.
THEOREM DeletedStaysOut == Spec => DeletionIsFinal
<1> DEFINE Stays == Deleted /\ Settled => (Deleted /\ Settled)'
<1>1. Inv /\ [Next]_vars => [Stays]_vars
  <2> SUFFICES ASSUME Inv, [Next]_vars, world.what # "issue", app = None, Settled
               PROVE  UNCHANGED world /\ app' = None /\ Settled'
    BY DEF Deleted
  <2>1. CodeInv /\ RequestsInv
    BY DEF Inv
  <2>2. /\ \A e \in Exchanges : xchg[e].at = "idle"
        /\ \A a \in Asks : ask[a].at = "idle"
        /\ devices = {} /\ (asked = None => rec = None)
    BY <2>1 DEF Settled, CodeInv
  <2>3. ASSUME UNCHANGED <<ask, devices, xchg, confirm, expired, asked>>, rec' = rec \/ expired PROVE Settled'
    BY <2>3 DEF Settled, A!Is
  <2>4. ASSUME NEW a \in Asks, AskStep(a) PROVE FALSE
    BY <2>2, <2>4 DEF AskStep, BeginAsk, BeginPoll, GetSets, SetsArrive, FindClient, CreateGrant, FailAsk, Known
  <2>5. ASSUME NEW e \in Exchanges, NarrowStep(e) PROVE FALSE
    BY <2>2, <2>5 DEF NarrowStep, Narrow, NarrowRows, FailExchange, A!Fail
  <2>6. ASSUME NEW d \in Admins, AdminStep(d) PROVE UNCHANGED world /\ app' = None /\ Settled'
    <3>1. UNCHANGED <<ask, devices, codeVars, world>> /\ app' = None
      BY <2>6 DEF AdminStep, BeginAdmin, AdminSets, SetAllowedScopes, DeleteApp, WriteScopes,
                  ScopesWritten
    <3> QED
      BY <2>3, <3>1 DEF codeVars
  <2>7. CASE CodesMove
    <3>1. UNCHANGED <<ask, app, devices, world>>
      BY <2>2, <2>7 DEF CodesMove, Code, CodeExpire, ExchangeNext, DeviceOver
    <3>2. ASSUME NEW e \in Exchanges,
                 \/ A!Begin(e) \/ A!ConsumeGet(e) \/ A!ConsumeSet(e)
                 \/ A!CreateSession(e) \/ A!Issue(e)
          PROVE  Settled'
      <4>1. A!Begin(e) /\ ~A!Accepted
        BY <2>2, <3>2 DEF A!ConsumeGet, A!ConsumeSet, A!CreateSession, A!Issue, A!Accepted, A!Is,
                          Settled
      <4>2. UNCHANGED <<rec, asked, expired, confirm>> /\ A!Answer(e)
        BY <4>1 DEF A!Begin
      <4>3. \A x \in Exchanges : xchg'[x].at = "idle"
        BY <2>1, <2>2, <4>2, CodeTyped DEF A!Answer
      <4> QED
        BY <2>2, <3>1, <4>2, <4>3 DEF Settled, A!Is
    <3>3. ASSUME NEW f \in Confirms, A!AuthorizeGet(f) \/ A!AuthorizeSet(f) PROVE Settled'
      <4>1. asked = None \/ expired
        BY <2>2, <3>3 DEF Settled, A!AuthorizeGet, A!AuthorizeSet, A!Is
      <4>2. UNCHANGED <<asked, expired, xchg>>
        BY <3>3 DEF A!AuthorizeGet, A!AuthorizeSet
      <4> QED
        BY <2>2, <3>1, <4>1, <4>2 DEF Settled
    <3>4. CASE A!Expire \/ A!KeyExpire
      <4>1. UNCHANGED xchg /\ expired'
        BY <3>4 DEF A!Expire, A!KeyExpire
      <4> QED
        BY <2>2, <3>1, <4>1 DEF Settled
    <3> QED
      BY <2>2, <2>7, <3>1, <3>2, <3>3, <3>4 DEF CodesMove, Code, CodeExpire, ExchangeNext, DeviceOver
  <2>8. CASE ScopesElsewhere \/ UNCHANGED vars
    BY <2>3, <2>8 DEF ScopesElsewhere, vars, codeVars
  <2> QED
    BY <2>4, <2>5, <2>6, <2>7, <2>8, NextSteps
<1> QED
  BY <1>1, GrantsInductive, PTL DEF Spec, DeletionIsFinal
=============================================================================
