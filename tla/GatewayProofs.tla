----------------------------- MODULE GatewayProofs -----------------------------
(***************************************************************************)
(* Theorems about the gateway.                                             *)
(*                                                                         *)
(* First about a copy as LocalCopy has it, for any steps of its readers,   *)
(* writers and other processes; then that the gateway takes no others.     *)
(* Then about the policies themselves: the first match, what an id stands  *)
(* for, and what a handler may therefore forward; and about the pages of   *)
(* the company's list of orders.                                           *)
(***************************************************************************)
EXTENDS Gateway, TLAPS, WellFoundedInduction

(***************************************************************************)
(* CopyCurrent for every table, and any number of readers and writers.     *)
(*                                                                         *)
(* The invariant says of the rows under way what CopyCurrent says of the   *)
(* copy.  It speaks only of the moments without a writer: between a        *)
(* writer's statement and its invalidation the copy may be anything, and   *)
(* what makes that harmless is that the invalidation marks every fill, not *)
(* only those the writer's own statement overtook.                         *)
(***************************************************************************)
IsRows(x) == x # None => x = [rows |-> x.rows, late |-> x.late]
Fresh(x) == x # None /\ ~x.late => x.rows = table

CopyInv ==
  /\ IsRows(copy)
  /\ fill = [r \in Handlers |-> fill[r]]
  /\ \A r \in Handlers : IsRows(fill[r])
  /\ writing = {} => Fresh(copy) /\ \A r \in Handlers : Fresh(fill[r])

\* What InvalidateCache, LoseAnswer and WriteElsewhere leave is late.
LEMMA LateIsLate ==
  ASSUME NEW x, IsRows(x)
  PROVE  IsRows(P!C!Late(x)) /\ Fresh(P!C!Late(x))'
<1>1. CASE x = None
  BY <1>1 DEF P!C!Late, IsRows, Fresh
<1>2. CASE x # None
  <2>1. x = [rows |-> x.rows, late |-> x.late]
    BY <1>2 DEF IsRows
  <2>2. P!C!Late(x) = [rows |-> x.rows, late |-> TRUE]
    BY <1>2, <2>1 DEF P!C!Late
  <2> QED BY <2>2 DEF IsRows, Fresh
<1> QED BY <1>1, <1>2

\* No copy and nobody reading or writing.
LEMMA InitCopy == P!C!Init => CopyInv
BY DEF P!C!Init, CopyInv, IsRows, Fresh

\* One step per action: rows that are not late are the table's.
LEMMA StepCopy == CopyInv /\ [P!C!Next]_(P!C!vars) => CopyInv'
<1> SUFFICES ASSUME CopyInv, [P!C!Next]_(P!C!vars) PROVE CopyInv'
  OBVIOUS
<1>1. ASSUME NEW r \in Handlers, P!C!Select(r), UNCHANGED table
      PROVE  CopyInv'
  <2>1. IsRows(fill'[r]) /\ Fresh(fill[r])'
    BY <1>1 DEF P!C!Select, P!C!Rows, IsRows, Fresh, CopyInv
  <2>2. \A q \in Handlers \ {r} : fill'[q] = fill[q]
    BY <1>1 DEF P!C!Select, CopyInv
  <2> QED BY <1>1, <2>1, <2>2 DEF P!C!Select, CopyInv, IsRows, Fresh
<1>2. ASSUME NEW r \in Handlers, P!C!Store(r), UNCHANGED table
      PROVE  CopyInv'
  BY <1>2 DEF P!C!Store, CopyInv, IsRows, Fresh
<1>3. ASSUME NEW r \in Handlers, P!C!Drop(r), UNCHANGED table
      PROVE  CopyInv'
  BY <1>3 DEF P!C!Drop, CopyInv, IsRows, Fresh
<1>4. ASSUME NEW w \in Writers, P!C!Commit(w)
      PROVE  CopyInv'
  BY <1>4 DEF P!C!Commit, CopyInv, IsRows
<1>5. ASSUME fill' = P!C!AllLate, copy' \in {None, P!C!Late(copy)}
      PROVE  CopyInv'
  <2>1. \A r \in Handlers : fill'[r] = P!C!Late(fill[r])
    BY <1>5 DEF P!C!AllLate
  <2>2. \A r \in Handlers : IsRows(fill'[r]) /\ Fresh(fill[r])'
    BY <2>1, LateIsLate DEF CopyInv, Fresh
  <2>3. IsRows(copy') /\ Fresh(copy)'
    <3>1. CASE copy' = None
      BY <3>1 DEF IsRows, Fresh
    <3>2. CASE copy' = P!C!Late(copy)
      BY <3>2, LateIsLate DEF CopyInv, Fresh
    <3> QED BY <1>5, <3>1, <3>2
  <2> QED BY <1>5, <2>2, <2>3 DEF P!C!AllLate, CopyInv, IsRows, Fresh
<1>6. ASSUME P!C!Expire, UNCHANGED table
      PROVE  CopyInv'
  BY <1>6 DEF P!C!Expire, CopyInv, IsRows, Fresh
<1>7. CASE UNCHANGED P!C!vars
  BY <1>7 DEF P!C!vars, CopyInv, IsRows, Fresh
<1> QED
  BY <1>1, <1>2, <1>3, <1>4, <1>5, <1>6, <1>7
  DEF P!C!Next, P!C!InvalidateCache, P!C!LoseAnswer, P!C!WriteElsewhere

\* Writing invalidates the copy (the headers of routePolicyRepo.ts and
\* scopeRepo.ts), in every process that reads and writes the table this way.
THEOREM CopyStaysCurrent == P!C!Spec => []P!C!CopyCurrent
<1>1. CopyInv => P!C!CopyCurrent
  BY DEF CopyInv, P!C!CopyCurrent, Fresh
<1> QED BY <1>1, InitCopy, StepCopy, PTL DEF P!C!Spec

(***************************************************************************)
(* The copy of the route policies is such a copy.                          *)
(***************************************************************************)
\* No process begins with a copy.
LEMMA InitPolicyCopy == Init => P!C!Init
BY DEF Init, P!Init

\* What leaves the policies alone leaves the copy alone.
LEMMA StillPolicyCopy == UNCHANGED policyVars => UNCHANGED P!C!vars
BY DEF policyVars, P!C!vars

\* All that the gateway does to the policies.
PoliciesStep ==
  \/ \E h \in Handlers : P!SelectPolicies(h) \/ P!StorePolicies(h) \/ P!DropPolicies(h)
  \/ \E w \in Writers : P!CreateOrDelete(w) \/ P!Invalidate(w) \/ P!LoseAnswer(w)
  \/ P!WriteElsewhere \/ P!CopyExpire
  \/ UNCHANGED policyVars

\* A step of the gateway is one of the policies' or leaves the table and its copy alone.
LEMMA GatewayPolicies == [Next]_vars => PoliciesStep
<1> SUFFICES ASSUME [Next]_vars PROVE PoliciesStep
  OBVIOUS
<1>1. ASSUME NEW h \in Handlers, Begin(h) \/ HandlerStep(h) \/ Fail(h)
      PROVE  PoliciesStep
  BY <1>1
  DEF Begin, HandlerStep, Verified, FindSession, EnforceRateLimit, EnsureFresh,
      GetPolicies, RowsArrive, Forwarded, Fail, PoliciesStep
<1>2. ASSUME NEW w \in Writers, WritePolicies(w) \/ PoliciesWritten(w)
      PROVE  PoliciesStep
  BY <1>2 DEF WritePolicies, PoliciesWritten, PoliciesStep
<1>3. ASSUME \/ \E s \in Signers : Signing(s)
             \/ ActiveExpire \/ JwksExpire \/ WindowEnds
             \/ RotateKeys \/ Revoke \/ FadeOut
      PROVE  PoliciesStep
  BY <1>3
  DEF Signing, ActiveExpire, JwksExpire, WindowEnds, RotateKeys, Revoke, FadeOut,
      PoliciesStep
<1>4. CASE WritePoliciesElsewhere \/ PolicyCopyExpire
  BY <1>4 DEF WritePoliciesElsewhere, PolicyCopyExpire, PoliciesStep
<1>5. CASE UNCHANGED vars
  BY <1>5 DEF vars, PoliciesStep
<1> QED
  BY <1>1, <1>2, <1>3, <1>4, <1>5 DEF Next

\* Every step of the gateway is one of the copy's or leaves it alone.
LEMMA StepPolicyCopy == [Next]_vars => [P!C!Next]_(P!C!vars)
<1> SUFFICES ASSUME PoliciesStep PROVE [P!C!Next]_(P!C!vars)
  BY GatewayPolicies
<1>1. ASSUME NEW h \in Handlers,
             P!SelectPolicies(h) \/ P!StorePolicies(h) \/ P!DropPolicies(h)
      PROVE  [P!C!Next]_(P!C!vars)
  BY <1>1 DEF P!SelectPolicies, P!StorePolicies, P!DropPolicies, P!C!Next
<1>2. ASSUME NEW w \in Writers, P!CreateOrDelete(w) \/ P!Invalidate(w) \/ P!LoseAnswer(w)
      PROVE  [P!C!Next]_(P!C!vars)
  BY <1>2 DEF P!CreateOrDelete, P!Invalidate, P!LoseAnswer, P!C!Next
<1>3. CASE P!WriteElsewhere \/ P!CopyExpire
  BY <1>3 DEF P!WriteElsewhere, P!CopyExpire, P!C!Next
<1>4. CASE UNCHANGED policyVars
  BY <1>4, StillPolicyCopy
<1> QED BY <1>1, <1>2, <1>3, <1>4 DEF PoliciesStep

\* The gateway's copy of the policies implements LocalCopy: nothing else in
\* the process touches it.
THEOREM GatewayKeepsLocalCopy == Spec => P!C!Spec
BY InitPolicyCopy, StepPolicyCopy, PTL DEF Spec, P!C!Spec

\* A policy an administrator of this process writes or deletes is in force in
\* this process from the moment the request is answered, but for the cases
\* LocalCopy names (the header of routePolicyRepo.ts).
THEOREM PolicyCopyStaysCurrent == Spec => []PolicyCopyCurrent
BY GatewayKeepsLocalCopy, CopyStaysCurrent, PTL DEF PolicyCopyCurrent, P!CopyCurrent

(***************************************************************************)
(* The first match.                                                        *)
(***************************************************************************)
\* Natural numbers have a least one.
LEMMA Least ==
  ASSUME NEW I \in SUBSET Nat, I # {}
  PROVE  P!Min(I) \in I /\ \A j \in I : P!Min(I) <= j
<1>1. IsWellFoundedOn(OpToRel(<, Nat), Nat)
  BY NatLessThanWellFounded
<1> DEFINE R == OpToRel(<, Nat)
<1>2. \A x, y \in Nat : y < x => <<y, x>> \in R
  BY DEF OpToRel
<1> HIDE DEF R
<1>3. PICK x \in I : \A y \in I : <<y, x>> \notin R
  BY <1>1, WFMin DEF R
<1>4. ASSUME NEW y \in I PROVE x <= y
  <2>1. y \in Nat /\ x \in Nat
    OBVIOUS
  <2>2. ~(y < x)
    BY <1>2, <1>3, <2>1
  <2> QED BY <2>1, <2>2
<1> QED BY <1>4 DEF P!Min

\* findMatchingPolicy returns a row that matches when none before it does, and
\* null when none matches.
LEMMA FirstMatch ==
  ASSUME NEW rows \in Seq(P!Row), NEW r
  PROVE  \/ /\ P!FindMatchingPolicy(rows, r) = None
            /\ \A i \in 1 .. Len(rows) : ~P!Matches(rows[i].policy, r)
         \/ \E i \in 1 .. Len(rows) :
              /\ P!FindMatchingPolicy(rows, r) = rows[i]
              /\ P!Matches(rows[i].policy, r)
              /\ \A j \in 1 .. i - 1 : ~P!Matches(rows[j].policy, r)
<1> DEFINE I == {i \in 1 .. Len(rows) : P!Matches(rows[i].policy, r)}
<1>1. P!FindMatchingPolicy(rows, r) = IF I = {} THEN None ELSE rows[P!Min(I)]
  <2>1. CASE I = {}
    BY <2>1 DEF P!FindMatchingPolicy, P!SelectInSeq
  <2>2. CASE I # {}
    <3>1. I \in SUBSET Nat
      OBVIOUS
    <3>2. P!Min(I) \in I
      BY <2>2, <3>1, Least
    <3>3. P!Min(I) # 0
      BY <3>2
    <3> HIDE DEF I
    <3>4. P!FindMatchingPolicy(rows, r) = IF P!Min(I) = 0 THEN None ELSE rows[P!Min(I)]
      BY <2>2 DEF P!FindMatchingPolicy, P!SelectInSeq, I
    <3> QED BY <2>2, <3>3, <3>4
  <2> QED BY <2>1, <2>2
<1>2. CASE I = {}
  BY <1>1, <1>2
<1>3. CASE I # {}
  <2>1. I \in SUBSET Nat
    OBVIOUS
  <2>2. P!Min(I) \in I /\ \A j \in I : P!Min(I) <= j
    BY <1>3, <2>1, Least
  <2> DEFINE i == P!Min(I)
  <2>3. i \in 1 .. Len(rows) /\ P!Matches(rows[i].policy, r)
    BY <2>2
  <2>4. \A j \in 1 .. i - 1 : j \in 1 .. Len(rows) /\ ~(i <= j)
    BY <2>3
  <2>5. \A j \in 1 .. i - 1 : ~P!Matches(rows[j].policy, r)
    BY <2>2, <2>4
  <2>6. P!FindMatchingPolicy(rows, r) = rows[i]
    BY <1>1, <1>3
  <2> QED BY <2>3, <2>5, <2>6
<1> QED BY <1>2, <1>3

\* A row put behind the others decides nothing that one of them decides.
LEMMA AppendedIsLast ==
  ASSUME NEW rows \in Seq(P!Row), NEW row \in P!Row, NEW r,
         P!FindMatchingPolicy(rows, r) # None
  PROVE  P!FindMatchingPolicy(Append(rows, row), r) = P!FindMatchingPolicy(rows, r)
<1> DEFINE more == Append(rows, row)
<1>1. /\ more \in Seq(P!Row) /\ Len(more) = Len(rows) + 1
      /\ \A i \in 1 .. Len(rows) : more[i] = rows[i]
  OBVIOUS
<1> HIDE DEF more
<1>2. PICK i \in 1 .. Len(rows) :
        /\ P!FindMatchingPolicy(rows, r) = rows[i]
        /\ P!Matches(rows[i].policy, r)
        /\ \A j \in 1 .. i - 1 : ~P!Matches(rows[j].policy, r)
  BY FirstMatch
<1>3. i \in 1 .. Len(more) /\ P!Matches(more[i].policy, r)
  BY <1>1, <1>2
<1>4. PICK k \in 1 .. Len(more) :
        /\ P!FindMatchingPolicy(more, r) = more[k]
        /\ P!Matches(more[k].policy, r)
        /\ \A j \in 1 .. k - 1 : ~P!Matches(more[j].policy, r)
  BY <1>1, <1>3, FirstMatch
<1>5. ~(i < k)
  BY <1>1, <1>3, <1>4
<1>6. ~(k < i)
  BY <1>1, <1>2, <1>4
<1>7. k = i
  BY <1>1, <1>5, <1>6
<1> QED BY <1>1, <1>2, <1>4, <1>7 DEF more

(***************************************************************************)
(* The list of orders, by induction on the number of requests.             *)
(***************************************************************************)
\* A walk of n requests: n + 1 states, each following from the one before.
IsWalk(w, all, halves, n) ==
  w = [k \in 0 .. n |-> IF k = 0 THEN Co!Begun ELSE Co!Follow(all, halves, w[k - 1])]

\* There is one: the least number of requests without one would be one more
\* than a number with one.
LEMMA WalkExists ==
  ASSUME NEW all, NEW halves, NEW n \in Nat
  PROVE  \E w : IsWalk(w, all, halves, n)
<1> DEFINE W(m, w) == w = [k \in 0 .. m |->
                             IF k = 0 THEN Co!Begun ELSE Co!Follow(all, halves, w[k - 1])]
           I == {m \in Nat : ~ \E w : W(m, w)}
<1>1. 0 \notin I
  <2> DEFINE w == [k \in 0 .. 0 |-> Co!Begun]
  <2>1. W(0, w)
    OBVIOUS
  <2> QED BY <2>1
<1>2. ASSUME NEW m \in Nat, m \notin I
      PROVE  m + 1 \notin I
  <2>1. PICK v : W(m, v)
    BY <1>2
  <2> DEFINE w == [k \in 0 .. m + 1 |-> IF k = m + 1 THEN Co!Follow(all, halves, v[m]) ELSE v[k]]
             step == [k \in 0 .. m + 1 |->
                       IF k = 0 THEN Co!Begun ELSE Co!Follow(all, halves, w[k - 1])]
  <2>2. ASSUME NEW k \in 0 .. m + 1
        PROVE  w[k] = step[k]
    <3>1. CASE k = m + 1
      BY <3>1
    <3>2. CASE k = 0
      BY <2>1, <3>2
    <3>3. CASE k # 0 /\ k # m + 1
      BY <2>1, <3>3
    <3> QED BY <3>1, <3>2, <3>3
  <2>3. w = step
    BY <2>2
  <2>4. W(m + 1, w)
    BY <2>3
  <2> QED BY <2>4
<1>3. I = {}
  <2> SUFFICES ASSUME I # {} PROVE FALSE
    OBVIOUS
  <2> DEFINE m == P!Min(I)
  <2>1. m \in I /\ \A j \in I : m <= j
    BY Least
  <2>2. m \in Nat /\ m # 0
    BY <1>1, <2>1
  <2>3. m - 1 \in Nat /\ (m - 1) + 1 = m /\ ~(m <= m - 1)
    BY <2>2
  <2> HIDE DEF m, I
  <2>4. m - 1 \notin I
    BY <2>1, <2>3
  <2> QED BY <1>2, <2>1, <2>3, <2>4
<1> QED BY <1>3 DEF IsWalk

\* Walk is its last state.
LEMMA WalkIs ==
  ASSUME NEW all, NEW halves, NEW n \in Nat
  PROVE  \E w : IsWalk(w, all, halves, n) /\ Co!Walk(all, halves, n) = w[n]
<1> DEFINE w0 == CHOOSE w : IsWalk(w, all, halves, n)
<1>1. \E w : IsWalk(w, all, halves, n)
  BY WalkExists
<1>2. IsWalk(w0, all, halves, n)
  BY <1>1, Zenon
<1>3. Co!Walk(all, halves, n) = w0[n]
  BY DEF Co!Walk, IsWalk
<1> HIDE DEF w0
<1> QED BY <1>2, <1>3

\* An order is found at its own place.
LEMMA StartAfter ==
  ASSUME NEW n \in 0 .. MaxOrders, NEW all, all = [i \in 1 .. n |-> i], NEW c \in 1 .. n
  PROVE  Co!StartIdx(all, c) = c
<1>1. c # None
  BY PageAssumption DEF Co!PageAssumption
<1> DEFINE I == {i \in 1 .. Len(all) : all[i] = c}
<1>2. I = {c} /\ I \in SUBSET Nat
  BY PageAssumption DEF Co!PageAssumption
<1>3. P!Min(I) = c
  BY <1>2, Least
<1>4. Co!Min(I) = P!Min(I)
  BY DEF Co!Min, P!Min
<1> HIDE DEF I
<1>5. Co!SelectInSeq(all, LAMBDA o : o = c) = IF I # {} THEN Co!Min(I) ELSE 0
  BY DEF Co!SelectInSeq, I
<1> QED BY <1>1, <1>2, <1>3, <1>4, <1>5 DEF Co!StartIdx

\* The orders after the first so many, up to another.
After(start, end) == [i \in 1 .. end - start |-> start + i]

\* A page has the orders after its start: the rest of them, or more than none.
LEMMA PageIs ==
  ASSUME NEW n \in 0 .. MaxOrders, NEW all, all = [i \in 1 .. n |-> i],
         NEW halves \in (0 .. 2 * PageMax + 2) \ {1},
         NEW cursor, NEW start \in 0 .. n, Co!StartIdx(all, cursor) = start
  PROVE  \E end \in start .. n :
           /\ Co!OrdersByUserPaged(all, halves, cursor).items = After(start, end)
           /\ Co!OrdersByUserPaged(all, halves, cursor).next = IF end = n THEN None ELSE end
           /\ end < n => start < end
<1>1. /\ n \in Nat /\ all \in Seq(Nat) /\ Len(all) = n /\ \A i \in 1 .. n : all[i] = i
      /\ PageMax \in Nat \ {0} /\ PageDefault \in 1 .. PageMax
  BY PageAssumption DEF Co!PageAssumption
<1> DEFINE limit == IF halves > 0 THEN Co!Smaller(halves, 2 * PageMax) ELSE 2 * PageDefault
           end == Co!Smaller((2 * start + limit) \div 2, n)
           items == SubSeq(all, start + 1, end)
           more == 2 * start + limit < 2 * n
<1>2. limit \in Nat /\ limit >= 2
  BY <1>1 DEF Co!Smaller
<1> HIDE DEF limit
<1>3. /\ (2 * start + limit) \div 2 \in Nat
      /\ 2 * ((2 * start + limit) \div 2) <= 2 * start + limit
      /\ 2 * start + limit <= 2 * ((2 * start + limit) \div 2) + 1
  BY <1>2
<1>4. end \in start .. n /\ (more => start < end /\ end < n) /\ (~more => end = n)
  BY <1>1, <1>2, <1>3 DEF Co!Smaller
<1> HIDE DEF end
<1>5. items = [i \in 1 .. end - start |-> start + i]
  BY <1>1, <1>4
<1>6. ASSUME more PROVE items # <<>> /\ Co!Last(items) = end
  <2>1. end - start \in Nat /\ end - start >= 1 /\ start \in Nat
    BY <1>4, <1>6
  <2>2. /\ Len(items) = end - start
        /\ items[end - start] = start + (end - start)
    BY <1>1, <1>4, <2>1
  <2>3. start + (end - start) = end
    BY <1>4
  <2>4. Co!Last(items) = items[Len(items)]
    BY DEF Co!Last
  <2> HIDE DEF items
  <2>5. items # <<>>
    BY <2>1, <2>2
  <2> QED BY <2>2, <2>3, <2>4, <2>5
<1>7. /\ Co!OrdersByUserPaged(all, halves, cursor).items = items
      /\ Co!OrdersByUserPaged(all, halves, cursor).next =
           IF more /\ items # <<>> THEN Co!Last(items) ELSE None
  BY <1>1 DEF Co!OrdersByUserPaged, limit, end
<1> HIDE DEF items, more
<1>8. Co!OrdersByUserPaged(all, halves, cursor).next = IF end = n THEN None ELSE end
  <2>1. CASE more
    BY <1>4, <1>6, <1>7, <2>1
  <2>2. CASE ~more
    BY <1>4, <1>7, <2>2
  <2> QED BY <2>1, <2>2
<1>9. end < n => start < end
  BY <1>1, <1>4
<1> QED BY <1>4, <1>5, <1>7, <1>8, <1>9 DEF After

Goes(last, page, next) ==
  /\ next.got = last.got \o page.items
  /\ next.cursor = page.next
  /\ next.more <=> page.next # None

\* One request more.
LEMMA FollowIs ==
  ASSUME NEW all, NEW halves, NEW last, last.more
  PROVE  LET page == Co!OrdersByUserPaged(all, halves, last.cursor)
             next == Co!Follow(all, halves, last)
         IN Goes(last, page, next)
<1> USE DEF Goes
<1> DEFINE page == Co!OrdersByUserPaged(all, halves, last.cursor)
           next == Co!Follow(all, halves, last)
<1>1. next.got = last.got \o page.items /\ next.cursor = page.next
  BY DEF Co!Follow
<1>2. CASE page.next = None
  <2>1. next = [got |-> last.got \o page.items, cursor |-> page.next, more |-> FALSE]
    BY <1>2 DEF Co!Follow
  <2>2. ~next.more
    BY <2>1
  <2> QED BY <1>1, <1>2, <2>2
<1>3. CASE page.next # None
  <2>1. next = [got |-> last.got \o page.items, cursor |-> page.next, more |-> TRUE]
    BY <1>3 DEF Co!Follow
  <2>2. next.more
    BY <2>1
  <2> QED BY <1>1, <1>3, <2>2
<1> QED BY <1>2, <1>3

\* After k requests the client has the first orders, at least k of them, and
\* the cursor of the last, or it is done and has them all.
Collected(w, n, k) ==
  \E c \in 0 .. n :
    /\ w[k].got = [i \in 1 .. c |-> i]
    /\ w[k].more => c >= k /\ w[k].cursor = (IF c = 0 THEN None ELSE c)
    /\ ~w[k].more => c = n

\* It starts with none.
LEMMA WalkStarts ==
  ASSUME NEW n \in 0 .. MaxOrders, NEW all, all = [i \in 1 .. n |-> i], NEW halves, NEW w,
         IsWalk(w, all, halves, n + 1)
  PROVE  Collected(w, n, 0)
<1>1. n \in Nat
  BY PageAssumption DEF Co!PageAssumption
<1>2. w[0] = Co!Begun
  BY <1>1 DEF IsWalk
<1>3. w[0].got = <<>> /\ w[0].cursor = None /\ w[0].more = TRUE
  BY <1>2 DEF Co!Begun
<1>4. w[0].got = [i \in 1 .. 0 |-> i]
  BY <1>3
<1>5. 0 \in 0 .. n /\ 0 >= 0
  BY <1>1
<1> QED BY <1>3, <1>4, <1>5, Zenon DEF Collected

\* A page is not empty unless it is the last.
LEMMA WalkGoesOn ==
  ASSUME NEW n \in 0 .. MaxOrders, NEW all, all = [i \in 1 .. n |-> i],
         NEW halves \in (0 .. 2 * PageMax + 2) \ {1}, NEW w,
         IsWalk(w, all, halves, n + 1), NEW k \in 0 .. n, Collected(w, n, k)
  PROVE  Collected(w, n, k + 1)
<1>1. n \in Nat /\ \A i \in 1 .. n : i # None
  BY PageAssumption DEF Co!PageAssumption
<1>2. w[k + 1] = Co!Follow(all, halves, w[k])
  <2>1. k + 1 \in 0 .. n + 1 /\ k + 1 # 0 /\ (k + 1) - 1 = k
    BY <1>1
  <2> QED BY <2>1 DEF IsWalk
<1>3. PICK c \in 0 .. n :
        /\ w[k].got = [i \in 1 .. c |-> i]
        /\ w[k].more => c >= k /\ w[k].cursor = (IF c = 0 THEN None ELSE c)
        /\ ~w[k].more => c = n
  BY DEF Collected
<1>4. CASE ~w[k].more
  <2>1. w[k + 1] = w[k]
    BY <1>2, <1>4 DEF Co!Follow
  <2> QED BY <1>3, <1>4, <2>1 DEF Collected
<1>5. CASE w[k].more
  <2>1. w[k].cursor = (IF c = 0 THEN None ELSE c) /\ c >= k
    BY <1>3, <1>5
  <2>2. Co!StartIdx(all, w[k].cursor) = c
    <3>1. CASE c = 0
      BY <2>1, <3>1 DEF Co!StartIdx
    <3>2. CASE c # 0
      <4>1. c \in 1 .. n
        BY <1>1, <3>2
      <4> QED BY <2>1, <3>2, <4>1, StartAfter
    <3> QED BY <3>1, <3>2
  <2> DEFINE page == Co!OrdersByUserPaged(all, halves, w[k].cursor)
  <2>3. PICK end \in c .. n :
          /\ page.items = After(c, end)
          /\ page.next = IF end = n THEN None ELSE end
          /\ end < n => c < end
    BY <2>2, PageIs
  <2>4. Goes(w[k], page, w[k + 1])
    BY <1>2, <1>5, FollowIs
  <2> HIDE DEF page
  <2>5. w[k + 1].got = [i \in 1 .. end |-> i]
    <3>1. [i \in 1 .. c |-> i] \o [i \in 1 .. end - c |-> c + i] = [i \in 1 .. end |-> i]
      BY <1>1
    <3> QED BY <1>3, <2>3, <2>4, <3>1 DEF After, Goes
  <2>6. w[k + 1].more <=> end # n
    <3>1. end # n => end \in 1 .. n
      BY <1>1, <2>3
    <3> QED BY <1>1, <2>3, <2>4, <3>1 DEF Goes
  <2>7. end # n => end >= k + 1 /\ end # 0
    BY <1>1, <2>1, <2>3
  <2>8. end \in 0 .. n
    BY <1>1
  <2>9. w[k + 1].cursor = page.next
    BY <2>4 DEF Goes
  <2> QED BY <2>3, <2>9, <2>5, <2>6, <2>7, <2>8 DEF Collected
<1> QED BY <1>4, <1>5

\* By the least number of requests after which it would not be so.
LEMMA WalkCollects ==
  ASSUME NEW n \in 0 .. MaxOrders, NEW all, all = [i \in 1 .. n |-> i],
         NEW halves \in (0 .. 2 * PageMax + 2) \ {1}, NEW w,
         IsWalk(w, all, halves, n + 1)
  PROVE  \A k \in 0 .. n + 1 : Collected(w, n, k)
<1>1. n \in Nat
  BY PageAssumption DEF Co!PageAssumption
<1> DEFINE I == {k \in Nat : k <= n + 1 /\ ~Collected(w, n, k)}
<1>2. 0 \notin I
  BY WalkStarts
<1>3. ASSUME NEW k \in 0 .. n, k \notin I
      PROVE  k + 1 \notin I
  <2>1. k \in Nat /\ k <= n + 1
    BY <1>1
  <2>2. Collected(w, n, k)
    BY <1>3, <2>1
  <2> QED BY <2>2, WalkGoesOn
<1>4. I = {}
  <2> SUFFICES ASSUME I # {} PROVE FALSE
    OBVIOUS
  <2> DEFINE m == P!Min(I)
  <2>1. m \in I /\ \A j \in I : m <= j
    BY Least
  <2>2. m \in Nat /\ m <= n + 1
    BY <2>1
  <2>3. m # 0
    BY <1>2, <2>1
  <2> HIDE DEF m, I
  <2>4. m - 1 \in 0 .. n /\ (m - 1) + 1 = m /\ ~(m <= m - 1)
    BY <1>1, <2>2, <2>3
  <2>5. m - 1 \notin I
    BY <2>1, <2>4
  <2> QED BY <1>3, <2>1, <2>4, <2>5
<1>5. \A k \in 0 .. n + 1 : k \in Nat /\ k <= n + 1
  BY <1>1
<1> QED BY <1>4, <1>5

\* n + 1 requests cannot have collected n + 1 of n orders.
LEMMA PagingIsComplete == Co!PagingComplete
<1> SUFFICES ASSUME NEW n \in 0 .. MaxOrders, NEW halves \in (0 .. 2 * PageMax + 2) \ {1},
                    NEW all, all = [i \in 1 .. n |-> i]
             PROVE  /\ Co!Walk(all, halves, n + 1).got = all
                    /\ ~Co!Walk(all, halves, n + 1).more
  BY DEF Co!PagingComplete
<1>1. n \in Nat /\ n + 1 \in Nat /\ n + 1 \in 0 .. n + 1
  BY PageAssumption DEF Co!PageAssumption
<1>2. PICK w : IsWalk(w, all, halves, n + 1) /\ Co!Walk(all, halves, n + 1) = w[n + 1]
  BY <1>1, WalkIs
<1>3. Collected(w, n, n + 1)
  BY <1>1, <1>2, WalkCollects
<1>4. PICK c \in 0 .. n :
        /\ w[n + 1].got = [i \in 1 .. c |-> i]
        /\ w[n + 1].more => c >= n + 1
        /\ ~w[n + 1].more => c = n
  BY <1>3 DEF Collected
<1>5. ~w[n + 1].more
  BY <1>1, <1>4
<1> QED BY <1>2, <1>4, <1>5

(***************************************************************************)
(* The table.                                                              *)
(*                                                                         *)
(* An id stands for one policy for ever: the column is serial, so none is  *)
(* given twice, and no statement updates a row.  That is why the ids of    *)
(* the seeded rows tell what they permit in any copy, however old.         *)
(***************************************************************************)
Kept(x) == x.id \in DOMAIN P!Seeded => x.policy = P!Seeded[x.id]

\* Rows that are, or were, in the table.
TableRows(rows) ==
  /\ rows \in Seq(P!Row)
  /\ \A i \in DOMAIN rows : rows[i].id \in 1 .. nextId - 1 /\ Kept(rows[i])

InOrder(rows) == \A i \in DOMAIN rows : i > 1 => rows[i - 1].id < rows[i].id

Fills == [rows : Seq(P!Row), late : BOOLEAN]

PoliciesInv ==
  /\ nextId \in Nat /\ Len(P!Seeded) < nextId
  /\ TableRows(table) /\ InOrder(table)
  /\ copy \in Fills \cup {None} /\ (copy # None => TableRows(copy.rows))
  /\ fill \in [Handlers -> Fills \cup {None}]
  /\ \A h \in Handlers : fill[h] # None => TableRows(fill[h].rows)
  /\ writing \subseteq Writers /\ writes \in 0 .. MaxWrites

\* seed.ts writes six policies.
LEMMA SeededRows ==
  /\ Len(P!Seeded) = 6 /\ DOMAIN P!Seeded = 1 .. 6
  /\ \A i \in 1 .. 6 : P!Seeded[i] \in P!Policies
<1>1. Len(P!Seeded) = 6
  BY DEF P!Seeded
<1>2. DOMAIN P!Seeded = 1 .. 6
  BY DEF P!Seeded
<1> QED BY <1>1, <1>2 DEF P!Policies

\* What is left of a sequence without one of its elements.
LEMMA RemovedAt ==
  ASSUME NEW S, NEW s \in Seq(S), NEW k \in 1 .. Len(s)
  PROVE  /\ P!RemoveAt(s, k) \in Seq(S) /\ Len(P!RemoveAt(s, k)) = Len(s) - 1
         /\ \A i \in 1 .. Len(s) - 1 : P!RemoveAt(s, k)[i] = IF i < k THEN s[i] ELSE s[i + 1]
<1> DEFINE before == SubSeq(s, 1, k - 1)
           after == SubSeq(s, k + 1, Len(s))
<1>1. /\ before \in Seq(S) /\ Len(before) = k - 1
      /\ \A i \in 1 .. k - 1 : before[i] = s[i]
  OBVIOUS
<1>2. /\ after \in Seq(S) /\ Len(after) = Len(s) - k
      /\ \A i \in 1 .. Len(s) - k : after[i] = s[i + k]
  OBVIOUS
<1> HIDE DEF before, after
<1>3. P!RemoveAt(s, k) = before \o after
  BY DEF P!RemoveAt, before, after
<1>4. /\ before \o after \in Seq(S) /\ Len(before \o after) = Len(s) - 1
  BY <1>1, <1>2
<1>5. ASSUME NEW i \in 1 .. Len(s) - 1
      PROVE  (before \o after)[i] = IF i < k THEN s[i] ELSE s[i + 1]
  <2>1. CASE i < k
    BY <1>1, <1>2, <2>1
  <2>2. CASE ~(i < k)
    <3>1. (before \o after)[i] = after[i - (k - 1)] /\ i - (k - 1) \in 1 .. Len(s) - k
      BY <1>1, <1>2, <2>2
    <3> QED BY <1>2, <2>2, <3>1
  <2> QED BY <2>1, <2>2
<1> QED BY <1>3, <1>4, <1>5

\* Marking rows as late changes nothing else about them.
LEMMA LateKeepsRows ==
  ASSUME NEW x \in Fills \cup {None}
  PROVE  /\ P!C!Late(x) \in Fills \cup {None}
         /\ (P!C!Late(x) = None) = (x = None)
         /\ x # None => P!C!Late(x).rows = x.rows
BY NoneAssumption DEF P!C!Late, Fills

\* What was in the table still is, or was, when more ids have been given.
LEMMA RowsStay ==
  ASSUME NEW rows, TableRows(rows), nextId \in Nat, nextId' \in Nat, nextId <= nextId'
  PROVE  TableRows(rows)'
BY DEF TableRows, Kept

\* PoliciesInv holds of the seeded table (seed.ts:98-106).
LEMMA InitPolicies == Init => PoliciesInv
<1> SUFFICES ASSUME Init PROVE PoliciesInv
  OBVIOUS
<1>1. /\ table = [i \in 1 .. 6 |-> [id |-> i, policy |-> P!Seeded[i]]]
      /\ nextId = 7 /\ writes = 0
      /\ copy = None /\ fill = [h \in Handlers |-> None] /\ writing = {}
  BY SeededRows DEF Init, P!Init, P!Record, P!C!Init
<1>2. \A i \in 1 .. 6 : [id |-> i, policy |-> P!Seeded[i]] \in P!Row
  BY SeededRows DEF P!Row
<1>3. table \in Seq(P!Row) /\ DOMAIN table = 1 .. 6
  BY <1>1, <1>2
<1>4. TableRows(table)
  BY <1>1, <1>3, SeededRows DEF TableRows, Kept
<1>5. InOrder(table)
  BY <1>1, <1>3 DEF InOrder
<1>6. writes \in 0 .. MaxWrites
  BY <1>1, BoundAssumption DEF P!BoundAssumption
<1> QED BY <1>1, <1>4, <1>5, <1>6, SeededRows DEF PoliciesInv

\* Insert and DeleteId keep the table in the order of its ids.
LEMMA TableChanges ==
  ASSUME PoliciesInv, P!Change
  PROVE  /\ TableRows(table)' /\ InOrder(table)'
         /\ nextId' \in Nat /\ nextId <= nextId'
<1>0. /\ table \in Seq(P!Row) /\ nextId \in Nat /\ 6 < nextId
      /\ \A i \in 1 .. Len(table) : table[i].id \in 1 .. nextId - 1 /\ Kept(table[i])
      /\ \A i \in 1 .. Len(table) : i > 1 => table[i - 1].id < table[i].id
  <2>1. table \in Seq(P!Row) /\ nextId \in Nat /\ 6 < nextId
    BY SeededRows DEF PoliciesInv, TableRows
  <2>2. DOMAIN table = 1 .. Len(table)
    BY <2>1
  <2> QED BY <2>1, <2>2 DEF PoliciesInv, TableRows, InOrder
<1>1. ASSUME NEW p \in Creatable, P!Insert(p)
      PROVE  /\ TableRows(table)' /\ InOrder(table)'
             /\ nextId' \in Nat /\ nextId <= nextId'
  <2> DEFINE row == [id |-> nextId, policy |-> p]
  <2>1. table' = Append(table, row) /\ nextId' = nextId + 1
    BY <1>1 DEF P!Insert, P!Record
  <2>2. row \in P!Row
    BY <1>0 DEF P!Row, P!Policies
  <2>3. row.id = nextId
    OBVIOUS
  <2>4. Kept(row)
    BY <1>0, <2>3, SeededRows DEF Kept
  <2> HIDE DEF row
  <2>5. /\ table' \in Seq(P!Row) /\ Len(table') = Len(table) + 1
        /\ \A i \in 1 .. Len(table) : table'[i] = table[i]
        /\ table'[Len(table) + 1] = row
    BY <1>0, <2>1, <2>2
  <2>6. \A i \in 1 .. Len(table') : table'[i].id \in 1 .. nextId' - 1 /\ Kept(table'[i])
    BY <1>0, <2>1, <2>3, <2>4, <2>5
  <2>7. ASSUME NEW i \in 1 .. Len(table'), i > 1
        PROVE  table'[i - 1].id < table'[i].id
    <3>1. i - 1 \in 1 .. Len(table) /\ table'[i - 1] = table[i - 1]
      BY <1>0, <2>5, <2>7
    <3>2. CASE i \in 1 .. Len(table)
      BY <1>0, <2>5, <2>7, <3>1, <3>2
    <3>3. CASE i = Len(table) + 1
      <4>1. table[i - 1].id \in 1 .. nextId - 1
        BY <1>0, <3>1
      <4> QED BY <1>0, <2>3, <2>5, <3>1, <3>3, <4>1
    <3> QED BY <1>0, <2>5, <3>2, <3>3
  <2> QED BY <1>0, <2>1, <2>5, <2>6, <2>7 DEF TableRows, InOrder, Kept
<1>2. ASSUME NEW id \in Deletable, P!DeleteId(id)
      PROVE  /\ TableRows(table)' /\ InOrder(table)'
             /\ nextId' \in Nat /\ nextId <= nextId'
  <2>1. PICK k \in 1 .. Len(table) : table' = P!RemoveAt(table, k)
    BY <1>0, <1>2 DEF P!DeleteId
  <2>2. nextId' = nextId
    BY <1>2 DEF P!DeleteId
  <2> DEFINE less == P!RemoveAt(table, k)
  <2>3. /\ less \in Seq(P!Row) /\ Len(less) = Len(table) - 1
        /\ \A i \in 1 .. Len(table) - 1 : less[i] = IF i < k THEN table[i] ELSE table[i + 1]
    <3>1. table \in Seq(P!Row)
      BY <1>0
    <3> QED BY <3>1, RemovedAt, Zenon
  <2> HIDE DEF less
  <2>4. ASSUME NEW i \in 1 .. Len(less)
        PROVE  less[i].id \in 1 .. nextId - 1 /\ Kept(less[i])
    <3>1. i \in 1 .. Len(table) /\ i + 1 \in 1 .. Len(table)
      BY <1>0, <2>3
    <3> QED BY <1>0, <2>3, <3>1
  <2>5. ASSUME NEW i \in 1 .. Len(less), i > 1
        PROVE  less[i - 1].id < less[i].id
    <3>1. /\ i - 1 \in 1 .. Len(table) - 1 /\ i \in 1 .. Len(table) - 1
          /\ i - 1 \in 1 .. Len(table) /\ i \in 1 .. Len(table) /\ i + 1 \in 1 .. Len(table)
      BY <1>0, <2>3, <2>5
    <3>2. table[i - 1].id < table[i].id
      BY <1>0, <2>5, <3>1
    <3>3. table[i].id < table[i + 1].id
      <4>1. i + 1 > 1 /\ (i + 1) - 1 = i
        BY <2>5
      <4> QED BY <1>0, <3>1, <4>1
    <3>4. CASE i < k
      BY <2>3, <3>1, <3>2, <3>4
    <3>5. CASE i = k
      <4>1. /\ table[i - 1].id \in Nat /\ table[i].id \in Nat /\ table[i + 1].id \in Nat
        BY <1>0, <3>1
      <4>2. less[i - 1] = table[i - 1] /\ less[i] = table[i + 1]
        BY <2>3, <3>1, <3>5
      <4> QED BY <3>2, <3>3, <4>1, <4>2
    <3>6. CASE i > k
      <4>1. less[i - 1] = table[i] /\ less[i] = table[i + 1]
        BY <2>3, <3>1, <3>6
      <4> QED BY <3>3, <4>1
    <3> QED BY <3>4, <3>5, <3>6
  <2>6. /\ DOMAIN less = 1 .. Len(less) /\ table' = less
    BY <2>1, <2>3 DEF less
  <2>7. TableRows(table)'
    BY <2>2, <2>3, <2>4, <2>6 DEF TableRows, Kept
  <2>8. InOrder(table)'
    BY <2>5, <2>6 DEF InOrder
  <2> QED BY <1>0, <2>2, <2>7, <2>8
<1> QED BY <1>1, <1>2 DEF P!Change

\* Creating, deleting and reading policies keep PoliciesInv.
LEMMA StepPolicies == PoliciesInv /\ PoliciesStep => PoliciesInv'
<1> SUFFICES ASSUME PoliciesInv, PoliciesStep PROVE PoliciesInv'
  OBVIOUS
<1> USE DEF PoliciesInv
<1>1. ASSUME NEW h \in Handlers, P!SelectPolicies(h)
      PROVE  PoliciesInv'
  <2>1. fill' = [fill EXCEPT ![h] = [rows |-> table, late |-> FALSE]]
    BY <1>1 DEF P!SelectPolicies, P!C!Select, P!C!Rows
  <2>2. /\ UNCHANGED <<table, nextId, writes, copy, writing>>
    BY <1>1 DEF P!SelectPolicies, P!C!Select
  <2>3. [rows |-> table, late |-> FALSE] \in Fills
    BY DEF TableRows, Fills
  <2>4. fill' \in [Handlers -> Fills \cup {None}]
    BY <2>1, <2>3
  <2>5. \A q \in Handlers : fill'[q] # None => TableRows(fill'[q].rows)
    BY <2>1
  <2> QED BY <2>2, <2>4, <2>5 DEF TableRows, InOrder
<1>2. ASSUME NEW h \in Handlers, P!StorePolicies(h) \/ P!DropPolicies(h)
      PROVE  PoliciesInv'
  <2>1. /\ fill' = [fill EXCEPT ![h] = None] /\ copy' \in {copy, fill[h]}
        /\ UNCHANGED <<table, nextId, writes, writing>>
    BY <1>2 DEF P!StorePolicies, P!DropPolicies, P!C!Store, P!C!Drop
  <2> QED BY <2>1 DEF TableRows, InOrder
<1>3. ASSUME NEW w \in Writers, P!CreateOrDelete(w)
      PROVE  PoliciesInv'
  <2>1. /\ writing' = writing \cup {w} /\ UNCHANGED <<copy, fill>>
        /\ writes < MaxWrites /\ writes' = writes + 1
    BY <1>3 DEF P!CreateOrDelete, P!Write, P!C!Commit
  <2>2. /\ TableRows(table)' /\ InOrder(table)'
        /\ nextId' \in Nat /\ nextId <= nextId'
    BY <1>3, TableChanges DEF P!CreateOrDelete
  <2>3. copy # None => TableRows(copy.rows)'
    BY <2>1, <2>2, RowsStay
  <2>4. \A h \in Handlers : fill[h] # None => TableRows(fill[h].rows)'
    BY <2>1, <2>2, RowsStay
  <2>5. writes' \in 0 .. MaxWrites
    BY <2>1, BoundAssumption DEF P!BoundAssumption
  <2>6. Len(P!Seeded) < nextId'
    BY <2>2, SeededRows
  <2> QED BY <2>1, <2>2, <2>3, <2>4, <2>5, <2>6
<1>4. ASSUME NEW w \in Writers, P!Invalidate(w) \/ P!LoseAnswer(w)
      PROVE  PoliciesInv'
  <2>1. /\ copy' \in {None, P!C!Late(copy)} /\ fill' = P!C!AllLate
        /\ writing' = writing \ {w} /\ UNCHANGED <<table, nextId, writes>>
    BY <1>4 DEF P!Invalidate, P!LoseAnswer, P!C!InvalidateCache, P!C!LoseAnswer
  <2>2. \A h \in Handlers : fill'[h] = P!C!Late(fill[h])
    BY <2>1 DEF P!C!AllLate
  <2>3. fill' \in [Handlers -> Fills \cup {None}]
    BY <2>1, LateKeepsRows DEF P!C!AllLate
  <2>4. copy' \in Fills \cup {None} /\ (copy' # None => TableRows(copy'.rows))
    BY <2>1, LateKeepsRows
  <2>5. \A h \in Handlers : fill'[h] # None => TableRows(fill'[h].rows)
    BY <2>2, LateKeepsRows
  <2> QED BY <2>1, <2>3, <2>4, <2>5 DEF TableRows, InOrder
<1>5. CASE P!WriteElsewhere
  <2>1. /\ copy' = P!C!Late(copy) /\ fill' = P!C!AllLate /\ writing' = writing
        /\ writes < MaxWrites /\ writes' = writes + 1
    BY <1>5 DEF P!WriteElsewhere, P!Write, P!C!WriteElsewhere
  <2>2. /\ TableRows(table)' /\ InOrder(table)'
        /\ nextId' \in Nat /\ nextId <= nextId'
    BY <1>5, TableChanges DEF P!WriteElsewhere
  <2>3. \A h \in Handlers : fill'[h] = P!C!Late(fill[h])
    BY <2>1 DEF P!C!AllLate
  <2>4. fill' \in [Handlers -> Fills \cup {None}]
    BY <2>1, LateKeepsRows DEF P!C!AllLate
  <2>5. /\ copy' \in Fills \cup {None} /\ (copy' # None => copy # None /\ copy'.rows = copy.rows)
    BY <2>1, LateKeepsRows
  <2>6. copy' # None => TableRows(copy.rows)'
    <3>1. copy # None => TableRows(copy.rows)
      OBVIOUS
    <3> QED BY <2>2, <2>5, <3>1 DEF TableRows, Kept
  <2>7. ASSUME NEW h \in Handlers, fill'[h] # None
        PROVE  TableRows(fill[h].rows)'
    <3>1. fill[h] # None /\ fill'[h].rows = fill[h].rows
      BY <2>3, <2>7, LateKeepsRows
    <3>2. TableRows(fill[h].rows)
      BY <3>1
    <3> QED BY <2>2, <3>1, <3>2 DEF TableRows, Kept
  <2>8. writes' \in 0 .. MaxWrites
    BY <2>1, BoundAssumption DEF P!BoundAssumption
  <2>9. Len(P!Seeded) < nextId'
    BY <2>2, SeededRows
  <2> QED BY <2>1, <2>2, <2>4, <2>5, <2>6, <2>7, <2>8, <2>9
<1>6. CASE P!CopyExpire
  BY <1>6 DEF P!CopyExpire, P!C!Expire, TableRows, InOrder
<1>7. CASE UNCHANGED policyVars
  BY <1>7 DEF policyVars, TableRows, InOrder
<1> QED BY <1>1, <1>2, <1>3, <1>4, <1>5, <1>6, <1>7 DEF PoliciesStep

\* Ids of policies are never reused, so wherever a seeded id appears, in the table, in the
\* copy or in rows on their way to it, it names the seeded policy.
THEOREM PoliciesInductive == Spec => []PoliciesInv
BY InitPolicies, GatewayPolicies, StepPolicies, PTL DEF Spec

\* Only an INSERT takes the next id.
LEMMA IdsFromInserts ==
  ASSUME PoliciesInv, PoliciesStep, nextId' > nextId
  PROVE  \E p \in Creatable : P!Insert(p)
<1>1. nextId' # nextId
  BY DEF PoliciesInv
<1> QED
  BY <1>1
  DEF PoliciesStep, P!SelectPolicies, P!StorePolicies, P!DropPolicies, P!CopyExpire,
      P!CreateOrDelete, P!Invalidate, P!LoseAnswer, P!WriteElsewhere, P!Change,
      P!DeleteId, policyVars

\* An INSERT here or elsewhere leaves every path that has a first match with that match.
LEMMA StepDecisions ==
  ASSUME PoliciesInv, PoliciesStep, nextId' > nextId, NEW r \in Requests,
         P!FindMatchingPolicy(table, r) # None
  PROVE  P!FindMatchingPolicy(table', r) = P!FindMatchingPolicy(table, r)
<1>1. PICK p \in Creatable : P!Insert(p)
  BY IdsFromInserts
<1> DEFINE row == [id |-> nextId, policy |-> p]
<1>2. table' = Append(table, row)
  BY <1>1 DEF P!Insert, P!Record
<1>3. row \in P!Row /\ table \in Seq(P!Row)
  BY DEF P!Row, P!Policies, PoliciesInv, TableRows
<1> HIDE DEF row
<1> QED BY <1>2, <1>3, AppendedIsLast

\* An administrator's new policy, whatever it says, leaves every decision as it
\* was that the table already takes: findMatchingPolicy takes the first match
\* and list() sorts by id.
THEOREM NewPoliciesComeLast == Spec => AppendKeepsDecisions
<1>1. ASSUME PoliciesInv, [Next]_vars
      PROVE  nextId' > nextId =>
               \A r \in Requests :
                 LET before == P!FindMatchingPolicy(table, r)
                 IN before # None => P!FindMatchingPolicy(table', r) = before
  BY <1>1, GatewayPolicies, StepDecisions
<1> QED
  BY <1>1, PoliciesInductive, PTL DEF Spec, AppendKeepsDecisions, P!AppendKeepsDecisions

(***************************************************************************)
(* The keys and the counter.                                               *)
(***************************************************************************)
Sets == [rows : SUBSET Keys, late : BOOLEAN]

\* All that the gateway does to the keys.
KeysStep ==
  \/ \E h \in Handlers : K!ListVerifiers(h) \/ K!StoreVerifiers(h) \/ K!DropVerifiers(h)
  \/ \E s \in Signers : K!GetCached(s) \/ K!SelectActive(s) \/ K!CacheSetActive(s)
  \/ K!ActiveExpire \/ K!JwksExpire
  \/ \E k \in Keys : K!AddKey(k) \/ K!Retire(k)
  \/ UNCHANGED keyVars

LimitStep == L!Eval \/ L!WindowEnds \/ UNCHANGED limitVars

\* A step of the gateway is one of the keys' and one of the counter's, or leaves each alone.
LEMMA GatewayKeys == [Next]_vars => KeysStep /\ LimitStep
<1> SUFFICES ASSUME [Next]_vars PROVE KeysStep /\ LimitStep
  OBVIOUS
<1>1. ASSUME NEW h \in Handlers, Begin(h) \/ HandlerStep(h) \/ Fail(h)
      PROVE  KeysStep /\ LimitStep
  BY <1>1
  DEF Begin, HandlerStep, Verified, FindSession, EnforceRateLimit, EnsureFresh,
      GetPolicies, RowsArrive, Forwarded, Fail, KeysStep, LimitStep
<1>2. ASSUME NEW w \in Writers, WritePolicies(w) \/ PoliciesWritten(w)
      PROVE  KeysStep /\ LimitStep
  BY <1>2 DEF WritePolicies, PoliciesWritten, KeysStep, LimitStep
<1>3. ASSUME NEW s \in Signers, Signing(s)
      PROVE  KeysStep /\ LimitStep
  BY <1>3 DEF Signing, KeysStep, LimitStep
<1>4. CASE \/ ActiveExpire \/ JwksExpire \/ WindowEnds \/ RotateKeys \/ Revoke \/ FadeOut
           \/ WritePoliciesElsewhere \/ PolicyCopyExpire
  BY <1>4
  DEF ActiveExpire, JwksExpire, WindowEnds, RotateKeys, Revoke, FadeOut,
      WritePoliciesElsewhere, PolicyCopyExpire, KeysStep, LimitStep
<1>5. CASE UNCHANGED vars
  BY <1>5 DEF vars, KeysStep, LimitStep
<1> QED BY <1>1, <1>2, <1>3, <1>4, <1>5 DEF Next

\* The set of public keys is a copy as LocalCopy has it, without a writer in
\* this process: nothing else touches jwksCache, and the table changes only
\* behind its back.
THEOREM GatewayKeepsKeyCopy == Spec => K!C!Spec
<1>1. Init => K!C!Init
  BY DEF Init, K!Init
<1>2. ASSUME KeysStep PROVE [K!C!Next]_(K!C!vars)
  <2>1. ASSUME UNCHANGED <<status, jwks, loading>>
        PROVE  UNCHANGED K!C!vars
    BY <2>1 DEF K!C!vars, K!Verifiers
  <2>2. ASSUME NEW h \in Handlers,
               K!ListVerifiers(h) \/ K!StoreVerifiers(h) \/ K!DropVerifiers(h)
        PROVE  [K!C!Next]_(K!C!vars)
    <3>1. UNCHANGED K!Verifiers
      BY <2>2 DEF K!ListVerifiers, K!StoreVerifiers, K!DropVerifiers, K!Verifiers
    <3> QED
      BY <2>2, <3>1 DEF K!ListVerifiers, K!StoreVerifiers, K!DropVerifiers, K!C!Next
  <2>3. ASSUME NEW s \in Signers, K!GetCached(s) \/ K!SelectActive(s) \/ K!CacheSetActive(s)
        PROVE  [K!C!Next]_(K!C!vars)
    BY <2>1, <2>3 DEF K!GetCached, K!SelectActive, K!CacheSetActive
  <2>4. CASE K!ActiveExpire \/ UNCHANGED keyVars
    BY <2>1, <2>4 DEF K!ActiveExpire, keyVars
  <2>5. CASE K!JwksExpire
    <3>1. UNCHANGED K!Verifiers
      BY <2>5 DEF K!JwksExpire, K!Verifiers
    <3> QED BY <2>5, <3>1 DEF K!JwksExpire, K!C!Next
  <2>6. ASSUME NEW k \in Keys, K!AddKey(k) \/ K!Retire(k)
        PROVE  [K!C!Next]_(K!C!vars)
    BY <2>6 DEF K!AddKey, K!Retire, K!C!Next
  <2> QED BY <1>2, <2>2, <2>3, <2>4, <2>5, <2>6 DEF KeysStep
<1>3. [Next]_vars => [K!C!Next]_(K!C!vars)
  BY <1>2, GatewayKeys
<1> QED BY <1>1, <1>3, PTL DEF Spec, K!C!Spec

\* Marking a set of public keys as late leaves it one.
LEMMA LateKeepsKeys ==
  ASSUME NEW x \in Sets \cup {None}
  PROVE  /\ K!C!Late(x) \in Sets \cup {None}
         /\ (K!C!Late(x) = None) = (x = None)
BY NoneAssumption DEF K!C!Late, Sets

\* The keys start typed.
LEMMA InitKeys == Init => K!TypeOK
<1> SUFFICES ASSUME Init PROVE K!TypeOK
  OBVIOUS
<1>1. status \in [Keys -> {"active", "retired", None}]
  BY DEF Init, K!Init
<1>2. active \in Keys \cup {None} /\ signer \in [Signers -> Keys \cup {None}]
  BY DEF Init, K!Init
<1>3. signed \in SUBSET Keys
  BY DEF Init, K!Init, K!With
<1>4. K!C!TypeOK(SUBSET Keys)
  BY DEF Init, K!Init, K!C!Init, K!C!TypeOK, K!Verifiers
<1> QED BY <1>1, <1>2, <1>3, <1>4 DEF K!TypeOK

\* Signing, rotating and fetching keys keep them typed.
LEMMA StepKeys == K!TypeOK /\ KeysStep => K!TypeOK'
<1> SUFFICES ASSUME K!TypeOK, KeysStep PROVE K!TypeOK'
  OBVIOUS
<1>1. /\ status \in [Keys -> {"active", "retired", None}]
      /\ active \in Keys \cup {None} /\ signer \in [Signers -> Keys \cup {None}]
      /\ signed \in SUBSET Keys
      /\ jwks \in Sets \cup {None} /\ loading \in [Handlers -> Sets \cup {None}]
  BY DEF K!TypeOK, K!C!TypeOK, Sets
<1>2. K!Verifiers \in SUBSET Keys /\ K!Verifiers' \in SUBSET Keys
  BY DEF K!Verifiers
<1>3. ASSUME /\ status' \in [Keys -> {"active", "retired", None}]
             /\ active' \in Keys \cup {None} /\ signer' \in [Signers -> Keys \cup {None}]
             /\ signed' \in SUBSET Keys
             /\ jwks' \in Sets \cup {None} /\ loading' \in [Handlers -> Sets \cup {None}]
      PROVE  K!TypeOK'
  BY <1>2, <1>3 DEF K!TypeOK, K!C!TypeOK, Sets
<1>4. ASSUME NEW h \in Handlers, K!ListVerifiers(h)
      PROVE  K!TypeOK'
  <2>1. /\ loading' = [loading EXCEPT ![h] = [rows |-> K!Verifiers, late |-> FALSE]]
        /\ UNCHANGED <<status, active, signer, signed, jwks>>
    BY <1>4 DEF K!ListVerifiers, K!C!Select, K!C!Rows, K!redisVars
  <2>2. [rows |-> K!Verifiers, late |-> FALSE] \in Sets
    BY <1>2 DEF Sets
  <2> QED BY <1>1, <1>3, <2>1, <2>2
<1>5. ASSUME NEW h \in Handlers, K!StoreVerifiers(h) \/ K!DropVerifiers(h)
      PROVE  K!TypeOK'
  BY <1>1, <1>3, <1>5
  DEF K!StoreVerifiers, K!DropVerifiers, K!C!Store, K!C!Drop, K!redisVars
<1>6. ASSUME NEW s \in Signers, K!GetCached(s) \/ K!SelectActive(s) \/ K!CacheSetActive(s)
      PROVE  K!TypeOK'
  BY <1>1, <1>3, <1>6
  DEF K!GetCached, K!SelectActive, K!CacheSetActive, K!Sign, K!With
<1>7. CASE K!ActiveExpire \/ K!JwksExpire
  BY <1>1, <1>3, <1>7 DEF K!ActiveExpire, K!JwksExpire, K!C!Expire, K!redisVars
<1>8. ASSUME NEW k \in Keys, K!AddKey(k) \/ K!Retire(k)
      PROVE  K!TypeOK'
  <2>1. /\ status' \in [Keys -> {"active", "retired", None}]
        /\ UNCHANGED <<active, signer, signed>>
    BY <1>1, <1>8 DEF K!AddKey, K!Retire, K!redisVars
  <2>2. jwks' = K!C!Late(jwks) /\ loading' = K!C!AllLate
    BY <1>8 DEF K!AddKey, K!Retire, K!C!WriteElsewhere
  <2>3. jwks' \in Sets \cup {None} /\ loading' \in [Handlers -> Sets \cup {None}]
    BY <1>1, <2>2, LateKeepsKeys DEF K!C!AllLate
  <2> QED BY <1>1, <1>3, <2>1, <2>3
<1>9. CASE UNCHANGED keyVars
  BY <1>1, <1>3, <1>9 DEF keyVars
<1> QED BY <1>4, <1>5, <1>6, <1>7, <1>8, <1>9 DEF KeysStep

\* The counter starts typed.
LEMMA InitLimit == Init => L!TypeOK
<1>1. 0 \in 0 .. L!Over
  BY LimitAssumption DEF L!Over, L!LimitAssumption
<1> QED BY <1>1 DEF Init, L!Init, L!TypeOK

\* Counting and expiring keep the counter typed.
LEMMA StepLimit == L!TypeOK /\ LimitStep => L!TypeOK'
<1> SUFFICES ASSUME L!TypeOK, LimitStep PROVE L!TypeOK'
  OBVIOUS
<1>1. L!Over \in Nat /\ count \in 0 .. L!Over /\ ttl \in BOOLEAN
  BY LimitAssumption DEF L!Over, L!LimitAssumption, L!TypeOK
<1>2. CASE L!Eval
  <2>1. count' \in 0 .. L!Over
    BY <1>1, <1>2 DEF L!Eval, L!Incr
  <2>2. ttl' \in BOOLEAN
    BY <1>1, <1>2, Zenon DEF L!Eval
  <2> QED BY <2>1, <2>2 DEF L!TypeOK, L!Over
<1>3. CASE L!WindowEnds
  <2>1. count' = 0 /\ ttl' = FALSE
    BY <1>3 DEF L!WindowEnds
  <2>2. 0 \in 0 .. L!Over
    BY <1>1
  <2> QED BY <2>1, <2>2 DEF L!TypeOK, L!Over
<1>4. CASE UNCHANGED limitVars
  BY <1>1, <1>4 DEF limitVars, L!TypeOK, L!Over
<1> QED BY <1>2, <1>3, <1>4 DEF LimitStep

(***************************************************************************)
(* The handlers.                                                           *)
(*                                                                         *)
(* What a handler forwards was decided by a row that was in the table      *)
(* when the rows it decided with were read.  The table may have changed    *)
(* since, but not what the row's id stands for.                            *)
(***************************************************************************)
Places == {"idle", "keys", "session", "limit", "company", "policies", "rows", "forward"}
Sendings == [r : Requests, by : P!Row]

\* The row a request is forwarded under matches it, and the session has its scope.
Decided(x) ==
  /\ Kept(x.by)
  /\ P!Matches(x.by.policy, x.r)
  /\ Permits(x.by.policy)

\* Where a handler is tells what it holds, and past hasCompanyToken the
\* session is a user's.
Linked(h) ==
  /\ (at[h] = "keys") = (loading[h] # None)
  /\ (at[h] = "rows") = (fill[h] # None)
  /\ (at[h] = "forward") = (sent[h] # None)
  /\ at[h] \in {"company", "policies", "rows", "forward"} => world.user # None
  /\ sent[h] # None => Decided(sent[h])

HandlersInv ==
  /\ world \in Worlds /\ session \in {"live", "fading", "dead"}
  /\ at \in [Handlers -> Places]
  /\ sent \in [Handlers -> Sendings \cup {None}]
  /\ \A h \in Handlers : Linked(h)

\* The inductive invariant.
Inv == K!TypeOK /\ L!TypeOK /\ PoliciesInv /\ HandlersInv

\* What holds whatever the handlers hold: the same for the keys and the policies.
Holdings ==
  /\ loading \in [Handlers -> Sets \cup {None}]
  /\ fill \in [Handlers -> Fills \cup {None}]

\* What the invariant says of what a handler awaits.
LEMMA InvHoldings == Inv => Holdings
BY DEF Inv, K!TypeOK, K!C!TypeOK, PoliciesInv, Holdings, Sets

\* A step of handler h alone.
Moves(h) ==
  /\ UNCHANGED sessionVars
  /\ at' \in [Handlers -> Places] /\ sent' \in [Handlers -> Sendings \cup {None}]
  /\ \A q \in Handlers \ {h} :
       /\ at'[q] = at[q] /\ sent'[q] = sent[q]
       /\ loading'[q] = loading[q] /\ fill'[q] = fill[q]
  /\ Linked(h)'

\* A step of one handler, which leaves the others and the session alone, keeps HandlersInv.
LEMMA MovesKeeps ==
  ASSUME HandlersInv, NEW h \in Handlers, Moves(h)
  PROVE  HandlersInv'
<1>1. ASSUME NEW q \in Handlers PROVE Linked(q)'
  <2>1. CASE q = h
    BY <2>1 DEF Moves
  <2>2. CASE q # h
    <3>1. /\ at'[q] = at[q] /\ sent'[q] = sent[q] /\ world' = world
          /\ loading'[q] = loading[q] /\ fill'[q] = fill[q]
      BY <2>2 DEF Moves, sessionVars
    <3>2. Linked(q)
      BY DEF HandlersInv
    <3> QED BY <3>1, <3>2 DEF Linked, Decided, Permits, Kept
  <2> QED BY <2>1, <2>2
<1> QED BY <1>1 DEF HandlersInv, Moves, sessionVars

\* Decide: forwarded under a row that matches, or not at all.
LEMMA DecideMoves ==
  ASSUME HandlersInv, NEW h \in Handlers, NEW rows, TableRows(rows), Decide(h, rows),
         sent[h] = None, world' = world
  PROVE  /\ at' \in [Handlers -> Places] /\ sent' \in [Handlers -> Sendings \cup {None}]
         /\ \A q \in Handlers \ {h} : at'[q] = at[q] /\ sent'[q] = sent[q]
         /\ at'[h] \in {"idle", "forward"} /\ (at'[h] = "forward") = (sent'[h] # None)
         /\ sent'[h] # None => Decided(sent[h])'
<1>1. at \in [Handlers -> Places] /\ sent \in [Handlers -> Sendings \cup {None}]
  BY DEF HandlersInv
<1>2. PICK r \in Requests :
        LET found  == P!FindMatchingPolicy(rows, r)
            policy == IF found = None THEN None ELSE found.policy
        IN IF Permits(policy)
           THEN Goto(h, "forward") /\ sent' = [sent EXCEPT ![h] = [r |-> r, by |-> found]]
           ELSE Goto(h, "idle") /\ UNCHANGED sent
  BY DEF Decide
<1> DEFINE found == P!FindMatchingPolicy(rows, r)
           x == [r |-> r, by |-> found]
<1>3. CASE found # None /\ Permits(found.policy)
  <2>1. at' = [at EXCEPT ![h] = "forward"] /\ sent' = [sent EXCEPT ![h] = x]
    BY <1>2, <1>3 DEF Goto
  <2>2. PICK i \in 1 .. Len(rows) :
          found = rows[i] /\ P!Matches(rows[i].policy, r)
    BY <1>3, FirstMatch DEF TableRows
  <2>3. rows \in Seq(P!Row) /\ DOMAIN rows = 1 .. Len(rows)
    BY DEF TableRows
  <2>4. found \in P!Row /\ Kept(found)
    BY <2>2, <2>3 DEF TableRows
  <2> HIDE DEF found
  <2>5. x \in Sendings /\ x.r = r /\ x.by = found
    BY <2>4 DEF Sendings
  <2>6. x # None
    BY <2>5, NoneAssumption DEF Sendings
  <2>7. Decided(x)
    BY <1>3, <2>2, <2>4, <2>5 DEF Decided
  <2> HIDE DEF x
  <2>8. sent'[h] = x /\ at'[h] = "forward"
    BY <1>1, <2>1
  <2>9. Decided(sent[h])'
    BY <2>7, <2>8 DEF Decided, Permits, Kept
  <2> QED BY <1>1, <2>1, <2>5, <2>6, <2>8, <2>9 DEF Places
<1>4. CASE ~(found # None /\ Permits(found.policy))
  <2>1. ~Permits(None)
    BY DEF Permits
  <2>2. Goto(h, "idle") /\ UNCHANGED sent
    BY <1>2, <1>4, <2>1
  <2> QED BY <1>1, <2>2 DEF Goto, Places
<1> QED BY <1>3, <1>4

\* One step per action of a handler.
LEMMA HandlerMoves ==
  ASSUME Inv, NEW h \in Handlers, Begin(h) \/ HandlerStep(h) \/ Fail(h)
  PROVE  Moves(h)
<1>0. /\ at \in [Handlers -> Places] /\ sent \in [Handlers -> Sendings \cup {None}]
      /\ loading \in [Handlers -> Sets \cup {None}] /\ fill \in [Handlers -> Fills \cup {None}]
      /\ Linked(h) /\ world \in Worlds
  BY InvHoldings DEF Inv, HandlersInv, Holdings
<1> USE DEF Places
<1>1. CASE Begin(h)
  <2>1. PICK k \in signed :
          \/ jwks # None /\ Verify(h, k, jwks.rows) /\ UNCHANGED keyVars
          \/ K!ListVerifiers(h) /\ Goto(h, "keys") /\ kid' = [kid EXCEPT ![h] = k]
    BY <1>1 DEF Begin
  <2>2. /\ UNCHANGED <<policyVars, sessionVars, sent>> /\ at[h] = "idle"
    BY <1>1 DEF Begin
  <2>3. CASE Verify(h, k, jwks.rows) /\ UNCHANGED keyVars
    <3>1. at' = [at EXCEPT ![h] = IF k \in jwks.rows THEN "session" ELSE "idle"]
      BY <2>3 DEF Verify, Goto
    <3> QED
      BY <1>0, <2>2, <2>3, <3>1
      DEF Moves, Linked, keyVars, policyVars, sessionVars
  <2>4. CASE K!ListVerifiers(h) /\ Goto(h, "keys")
    <3>1. /\ at' = [at EXCEPT ![h] = "keys"]
          /\ loading' = [loading EXCEPT ![h] = [rows |-> K!Verifiers, late |-> FALSE]]
      BY <2>4 DEF Goto, K!ListVerifiers, K!C!Select, K!C!Rows
    <3>2. [rows |-> K!Verifiers, late |-> FALSE] # None
      <4>1. K!Verifiers \in SUBSET Keys
        BY DEF K!Verifiers
      <4>2. [rows |-> K!Verifiers, late |-> FALSE] \in Sets
        BY <4>1 DEF Sets
      <4> QED BY <4>2, NoneAssumption DEF Sets
    <3> QED
      BY <1>0, <2>2, <3>1, <3>2
      DEF Moves, Linked, policyVars, sessionVars
  <2> QED BY <2>1, <2>3, <2>4
<1>2. CASE Verified(h)
  <2>1. /\ at' = [at EXCEPT ![h] = IF kid[h] \in loading[h].rows THEN "session" ELSE "idle"]
        /\ loading' = [loading EXCEPT ![h] = None]
        /\ UNCHANGED <<policyVars, sessionVars, sent>> /\ at[h] = "keys"
    BY <1>2 DEF Verified, Verify, Goto, K!StoreVerifiers, K!C!Store
  <2> QED
    BY <1>0, <2>1 DEF Moves, Linked, policyVars, sessionVars
<1>3. CASE FindSession(h)
  <2>1. /\ at' = [at EXCEPT ![h] = IF Found THEN "limit" ELSE "idle"]
        /\ UNCHANGED <<keyVars, policyVars, sessionVars, sent>> /\ at[h] = "session"
    BY <1>3 DEF FindSession, Goto
  <2> QED
    BY <1>0, <2>1 DEF Moves, Linked, keyVars, policyVars, sessionVars
<1>4. CASE EnforceRateLimit(h)
  <2>1. /\ \/ at' = [at EXCEPT ![h] = "company"] /\ world.user # None
           \/ at' = [at EXCEPT ![h] = "idle"]
        /\ UNCHANGED <<keyVars, policyVars, sessionVars, sent>> /\ at[h] = "limit"
    BY <1>4 DEF EnforceRateLimit, Goto
  <2> QED
    BY <1>0, <2>1 DEF Moves, Linked, keyVars, policyVars, sessionVars
<1>5. CASE EnsureFresh(h)
  <2>1. /\ at' = [at EXCEPT ![h] = IF Found THEN "policies" ELSE "idle"]
        /\ UNCHANGED <<keyVars, policyVars, sessionVars, sent>> /\ at[h] = "company"
    BY <1>5 DEF EnsureFresh, Goto
  <2> QED
    BY <1>0, <2>1 DEF Moves, Linked, keyVars, policyVars, sessionVars
<1>6. CASE GetPolicies(h)
  <2>1. at[h] = "policies" /\ UNCHANGED <<keyVars, sessionVars>> /\ world' = world
    BY <1>6 DEF GetPolicies, sessionVars
  <2>2. sent[h] = None /\ world.user # None
    BY <1>0, <2>1 DEF Linked
  <2>3. CASE copy # None /\ Decide(h, copy.rows) /\ UNCHANGED policyVars
    <3>1. TableRows(copy.rows)
      BY <2>3 DEF Inv, PoliciesInv
    <3>2. HandlersInv
      BY DEF Inv
    <3>3. /\ at' \in [Handlers -> Places] /\ sent' \in [Handlers -> Sendings \cup {None}]
          /\ \A q \in Handlers \ {h} : at'[q] = at[q] /\ sent'[q] = sent[q]
          /\ at'[h] \in {"idle", "forward"} /\ (at'[h] = "forward") = (sent'[h] # None)
          /\ sent'[h] # None => Decided(sent[h])'
      BY <2>1, <2>2, <2>3, <3>1, <3>2, DecideMoves
    <3> QED
      BY <1>0, <2>1, <2>2, <2>3, <3>3 DEF Moves, Linked, keyVars, policyVars, sessionVars
  <2>4. CASE P!SelectPolicies(h) /\ Goto(h, "rows") /\ UNCHANGED sent
    <3>1. /\ at' = [at EXCEPT ![h] = "rows"] /\ sent' = sent
          /\ fill' = [fill EXCEPT ![h] = [rows |-> table, late |-> FALSE]]
      BY <2>4 DEF Goto, P!SelectPolicies, P!C!Select, P!C!Rows
    <3>2. [rows |-> table, late |-> FALSE] # None
      <4>1. table \in Seq(P!Row)
        BY DEF Inv, PoliciesInv, TableRows
      <4>2. [rows |-> table, late |-> FALSE] \in Fills
        BY <4>1 DEF Fills
      <4> QED BY <4>2, NoneAssumption DEF Fills
    <3> QED
      BY <1>0, <2>1, <2>2, <3>1, <3>2 DEF Moves, Linked, keyVars, sessionVars
  <2> QED BY <1>6, <2>3, <2>4 DEF GetPolicies
<1>7. CASE RowsArrive(h)
  <2>1. /\ at[h] = "rows" /\ UNCHANGED <<keyVars, sessionVars>> /\ world' = world
        /\ fill' = [fill EXCEPT ![h] = None] /\ Decide(h, fill[h].rows)
    BY <1>7 DEF RowsArrive, P!StorePolicies, P!C!Store, sessionVars
  <2>2. sent[h] = None /\ fill[h] # None /\ world.user # None
    BY <1>0, <2>1 DEF Linked
  <2>3. TableRows(fill[h].rows) /\ HandlersInv
    BY <2>2 DEF Inv, PoliciesInv
  <2>4. /\ at' \in [Handlers -> Places] /\ sent' \in [Handlers -> Sendings \cup {None}]
        /\ \A q \in Handlers \ {h} : at'[q] = at[q] /\ sent'[q] = sent[q]
        /\ at'[h] \in {"idle", "forward"} /\ (at'[h] = "forward") = (sent'[h] # None)
        /\ sent'[h] # None => Decided(sent[h])'
    BY <2>1, <2>2, <2>3, DecideMoves
  <2> QED
    BY <1>0, <2>1, <2>2, <2>4 DEF Moves, Linked, keyVars, sessionVars
<1>8. CASE Forwarded(h)
  <2>1. /\ at' = [at EXCEPT ![h] = "idle"] /\ sent' = [sent EXCEPT ![h] = None]
        /\ UNCHANGED <<keyVars, policyVars, sessionVars>> /\ at[h] = "forward"
    BY <1>8 DEF Forwarded, Goto
  <2> QED
    BY <1>0, <2>1 DEF Moves, Linked, keyVars, policyVars, sessionVars
<1>9. CASE Fail(h)
  <2>1. /\ at' = [at EXCEPT ![h] = "idle"] /\ sent' = [sent EXCEPT ![h] = None]
        /\ UNCHANGED sessionVars
    BY <1>9 DEF Fail, Goto
  <2>2. loading' = [loading EXCEPT ![h] = None]
    <3>1. CASE at[h] = "keys"
      BY <1>9, <3>1 DEF Fail, K!DropVerifiers, K!C!Drop
    <3>2. CASE at[h] # "keys"
      BY <1>0, <1>9, <3>2 DEF Fail, Linked, keyVars
    <3> QED BY <3>1, <3>2
  <2>3. fill' = [fill EXCEPT ![h] = None]
    <3>1. CASE at[h] = "rows"
      BY <1>9, <3>1 DEF Fail, P!DropPolicies, P!C!Drop
    <3>2. CASE at[h] # "rows"
      BY <1>0, <1>9, <3>2 DEF Fail, Linked, policyVars
    <3> QED BY <3>1, <3>2
  <2> QED
    BY <1>0, <2>1, <2>2, <2>3 DEF Moves, Linked
<1> QED
  BY <1>1, <1>2, <1>3, <1>4, <1>5, <1>6, <1>7, <1>8, <1>9 DEF HandlerStep

\* Nobody else moves a handler: the others only mark what it holds as late, or
\* revoke the session.
LEMMA OthersKeep ==
  ASSUME Inv,
         \/ \E s \in Signers : Signing(s)
         \/ \E w \in Writers : WritePolicies(w) \/ PoliciesWritten(w)
         \/ ActiveExpire \/ JwksExpire \/ PolicyCopyExpire \/ WindowEnds
         \/ RotateKeys \/ WritePoliciesElsewhere \/ Revoke \/ FadeOut
         \/ UNCHANGED vars
  PROVE  HandlersInv'
<1>1. UNCHANGED <<world, at, sent>> /\ session' \in {session, "fading", "dead"}
  BY DEF Signing, WritePolicies, PoliciesWritten, ActiveExpire, JwksExpire,
         PolicyCopyExpire, WindowEnds, RotateKeys, WritePoliciesElsewhere, Revoke, FadeOut,
         vars, sessionVars
<1>2. loading' \in {loading, K!C!AllLate}
  BY DEF Signing, WritePolicies, PoliciesWritten, ActiveExpire, JwksExpire,
         PolicyCopyExpire, WindowEnds, RotateKeys, WritePoliciesElsewhere, Revoke, FadeOut,
         vars, keyVars, K!GetCached, K!SelectActive, K!CacheSetActive, K!ActiveExpire,
         K!JwksExpire, K!C!Expire, K!AddKey, K!Retire, K!C!WriteElsewhere
<1>3. fill' \in {fill, P!C!AllLate}
  BY DEF Signing, WritePolicies, PoliciesWritten, ActiveExpire, JwksExpire,
         PolicyCopyExpire, WindowEnds, RotateKeys, WritePoliciesElsewhere, Revoke, FadeOut,
         vars, policyVars, P!CreateOrDelete, P!Invalidate, P!LoseAnswer, P!CopyExpire,
         P!WriteElsewhere, P!C!Commit, P!C!InvalidateCache, P!C!LoseAnswer, P!C!Expire,
         P!C!WriteElsewhere
<1>4. ASSUME NEW h \in Handlers PROVE Linked(h)'
  <2>1. loading[h] \in Sets \cup {None} /\ fill[h] \in Fills \cup {None}
    BY InvHoldings DEF Holdings
  <2>2. (loading'[h] # None) = (loading[h] # None)
    BY <1>2, <2>1, LateKeepsKeys DEF K!C!AllLate
  <2>3. (fill'[h] # None) = (fill[h] # None)
    BY <1>3, <2>1, LateKeepsRows DEF P!C!AllLate
  <2>4. Linked(h)
    BY DEF Inv, HandlersInv
  <2>5. sent[h] # None => Decided(sent[h])'
    BY <1>1, <2>4 DEF Linked, Decided, Permits, Kept
  <2> QED BY <1>1, <2>2, <2>3, <2>4, <2>5 DEF Linked
<1> QED BY <1>1, <1>4 DEF Inv, HandlersInv

\* The invariant holds initially.
LEMMA InitInv == Init => Inv
<1> SUFFICES ASSUME Init PROVE Inv
  OBVIOUS
<1>1. /\ world \in Worlds /\ session = "live"
      /\ at = [h \in Handlers |-> "idle"] /\ sent = [h \in Handlers |-> None]
      /\ loading = [h \in Handlers |-> None] /\ fill = [h \in Handlers |-> None]
  BY DEF Init, K!Init, K!C!Init, P!Init, P!C!Init
<1>2. HandlersInv
  BY <1>1 DEF HandlersInv, Linked, Places
<1> QED BY <1>2, InitKeys, InitLimit, InitPolicies DEF Inv

\* Every step of the gateway keeps the invariant.
LEMMA StepInv == Inv /\ [Next]_vars => Inv'
<1> SUFFICES ASSUME Inv, [Next]_vars PROVE Inv'
  OBVIOUS
<1>1. K!TypeOK' /\ L!TypeOK' /\ PoliciesInv'
  BY GatewayKeys, StepKeys, StepLimit, GatewayPolicies, StepPolicies DEF Inv
<1>2. ASSUME NEW h \in Handlers, Begin(h) \/ HandlerStep(h) \/ Fail(h)
      PROVE  HandlersInv'
  <2>1. Moves(h)
    BY <1>2, HandlerMoves
  <2> QED BY <2>1, MovesKeeps DEF Inv
<1>3. ASSUME \/ \E s \in Signers : Signing(s)
             \/ \E w \in Writers : WritePolicies(w) \/ PoliciesWritten(w)
             \/ ActiveExpire \/ JwksExpire \/ PolicyCopyExpire \/ WindowEnds
             \/ RotateKeys \/ WritePoliciesElsewhere \/ Revoke \/ FadeOut
             \/ UNCHANGED vars
      PROVE  HandlersInv'
  BY <1>3, OthersKeep
<1> QED BY <1>1, <1>2, <1>3 DEF Next, Inv

\* The invariant the theorems below rest on holds for any number of handlers,
\* signers and writers, and any keys, policies, requests and limit.
THEOREM GatewayInductive == Spec => []Inv
BY InitInv, StepInv, PTL DEF Spec

\* Type correctness; it says where a handler is exactly when it holds keys or
\* rows of its own or has forwarded a request.
THEOREM GatewayTyped == Spec => []TypeOK
<1>1. Inv => TypeOK
  <2> SUFFICES ASSUME Inv PROVE TypeOK
    OBVIOUS
  <2>1. P!TypeOK
    <3>1. /\ \A i \in DOMAIN table : table[i].id < nextId
          /\ table \in Seq(P!Row) /\ InOrder(table)
      BY DEF Inv, PoliciesInv, TableRows
    <3>2. copy # None => P!Ids(copy.rows) \subseteq 1 .. nextId - 1
      BY DEF Inv, PoliciesInv, TableRows, P!Ids
    <3>3. \A h \in Handlers : fill[h] # None => P!Ids(fill[h].rows) \subseteq 1 .. nextId - 1
      BY DEF Inv, PoliciesInv, TableRows, P!Ids
    <3> QED BY <3>1, <3>2, <3>3 DEF P!TypeOK, InOrder, Inv, PoliciesInv
  <2> QED BY <2>1 DEF Inv, HandlersInv, Linked, Places, TypeOK
<1> QED BY <1>1, GatewayInductive, PTL

\* What each seeded policy lets through, the company serves: a path one of them
\* matches asks for no scope but the policy's own.
LEMMA SeededAgree ==
  ASSUME NEW i \in DOMAIN P!Seeded, NEW r, NEW x \in Worlds, x.user # None,
         P!Matches(P!Seeded[i], r),
         P!Seeded[i].scope = None \/ P!Seeded[i].scope \in x.scope,
         P!Seeded[i].scope \notin x.system
  PROVE  Co!Served(x.user, r)
<1> DEFINE p == P!Seeded[i]
<1>1. p.scope = None \/ p.scope \in Co!ScopesOf[x.user]
  BY WorldsAssumption
<1>2. i \in 1 .. 6
  BY SeededRows
<1>3. p \in { P!Policy("/api/orders", TRUE, "orders:read", "GET"),
              P!Policy("/api/products", TRUE, "products:read", "GET"),
              P!Policy("/api/invoices", TRUE, "invoices:read", "GET"),
              P!Policy("/api/admin/users", FALSE, "admin", "GET"),
              P!Policy("/me", FALSE, None, "GET"),
              P!Policy("/api/profile", FALSE, None, "GET") }
  <2>1. /\ P!Seeded[1] = P!Policy("/api/orders", TRUE, "orders:read", "GET")
        /\ P!Seeded[2] = P!Policy("/api/products", TRUE, "products:read", "GET")
        /\ P!Seeded[3] = P!Policy("/api/invoices", TRUE, "invoices:read", "GET")
        /\ P!Seeded[4] = P!Policy("/api/admin/users", FALSE, "admin", "GET")
        /\ P!Seeded[5] = P!Policy("/me", FALSE, None, "GET")
        /\ P!Seeded[6] = P!Policy("/api/profile", FALSE, None, "GET")
    BY DEF P!Seeded
  <2>2. i = 1 \/ i = 2 \/ i = 3 \/ i = 4 \/ i = 5 \/ i = 6
    BY <1>2
  <2> QED BY <2>1, <2>2
<1>4. P!Matches(p, r)
  OBVIOUS
<1> HIDE DEF p
<1>5. p.method = "GET" /\ r.method = "GET"
  BY <1>3, <1>4, NoneAssumption DEF P!Policy, P!Matches
<1>6. r.path = p.base \/ <<p.base, r.path>> \in Co!StartsWith
  BY <1>4 DEF P!Matches, P!MatchPattern
<1>7. r.path \in DOMAIN Co!Needs /\ Co!Needs[r.path] = p.scope
  BY <1>3, <1>6 DEF P!Policy, Co!Needs, Co!StartsWith
<1> QED BY <1>1, <1>5, <1>7 DEF Co!Served

\* A request forwarded under a seeded policy is one the company has a route for
\* and serves that user, through whatever copy of the policies it was decided
\* and whatever administrators have added or deleted (gateway.ts:89); the name
\* the policy asks for being a business scope when the token was narrowed.
THEOREM ForwardedIsServed == Spec => []CompanyAgrees
<1>1. Inv => CompanyAgrees
  <2> SUFFICES ASSUME Inv, NEW h \in Handlers, sent[h] # None,
                      sent[h].by.id \in DOMAIN P!Seeded, sent[h].by.policy.scope \notin world.system
               PROVE  Co!Served(world.user, sent[h].r)
    BY DEF CompanyAgrees
  <2>1. Linked(h) /\ world \in Worlds
    BY DEF Inv, HandlersInv
  <2>2. world.user # None /\ Decided(sent[h])
    BY <2>1 DEF Linked
  <2> DEFINE i == sent[h].by.id
  <2>3. sent[h].by.policy = P!Seeded[i]
    BY <2>2 DEF Decided, Kept
  <2>4. /\ P!Matches(P!Seeded[i], sent[h].r)
        /\ P!Seeded[i].scope = None \/ P!Seeded[i].scope \in world.scope
    BY <2>2, <2>3 DEF Decided, Permits
  <2>5. P!Seeded[i].scope \notin world.system
    BY <2>3
  <2> QED BY <2>1, <2>2, <2>4, <2>5, SeededAgree
<1> QED BY <1>1, GatewayInductive, PTL

\* Who follows nextCursor to the end of the orders list has every order once
\* and in order, for any number of orders, any page size and any limit but one
\* between 0 and 1 (data.ts:204).
THEOREM OrdersComeWhole == Spec => []PagingComplete
BY PagingIsComplete, PTL DEF PagingComplete
=============================================================================
