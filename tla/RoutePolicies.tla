---------------------------- MODULE RoutePolicies ----------------------------
(***************************************************************************)
(* The gateway's route policies: the table route_policies, the copy of it  *)
(* this process keeps (repos/routePolicyRepo.ts), and the administrators'  *)
(* writes to it (routes/adminWeb.ts), by this process or by another.       *)
(***************************************************************************)
EXTENDS Naturals, Sequences, SequencesExt

CONSTANTS Readers,    \* gateway handlers of this process
          Writers,    \* administrators' requests in progress in this process
          Creatable,  \* policies an administrator may add (scope already checked)
          StartsWith,   \* pairs of paths <<p, q>> where q starts with p, p # q
          Requests,   \* [method, path], for the properties
          Deletable,  \* bound: the ids that are ever deleted
          MaxWrites,  \* bound: writes of the table
          CanFail,    \* whether a statement's answer may be lost
          None

BoundAssumption == MaxWrites \in Nat /\ CanFail \in BOOLEAN

VARIABLES
  table,    \* route_policies, in the order of their ids
  nextId,   \* of the serial column
  copy, fill, writing,  \* see LocalCopy
  writes    \* bound

copyVars == <<copy, fill, writing>>
vars == <<table, nextId, copyVars, writes>>

C == INSTANCE LocalCopy

Policy(base, star, scope, method) ==
  [base |-> base, star |-> star, scope |-> scope, method |-> method]

\* defaultPolicies
Seeded ==
  << Policy("/api/orders", TRUE, "orders:read", "GET"),
     Policy("/api/products", TRUE, "products:read", "GET"),
     Policy("/api/invoices", TRUE, "invoices:read", "GET"),
     Policy("/api/admin/users", FALSE, "admin", "GET"),
     Policy("/me", FALSE, None, "GET"),
     Policy("/api/profile", FALSE, None, "GET") >>

Record(id, p) == [id |-> id, policy |-> p]
Ids(rows) == {rows[i].id : i \in DOMAIN rows}

\* What the table may hold.
Policies == {Seeded[i] : i \in DOMAIN Seeded} \cup Creatable
Row == [id : Nat, policy : Policies]

TypeOK ==
  /\ table \in Seq(Row)
  /\ \A i \in DOMAIN table : table[i].id < nextId /\ (i > 1 => table[i - 1].id < table[i].id)
  /\ copy # None => Ids(copy.rows) \subseteq 1 .. nextId - 1
  /\ \A r \in Readers : fill[r] # None => Ids(fill[r].rows) \subseteq 1 .. nextId - 1
  /\ writing \subseteq Writers
  /\ writes \in 0 .. MaxWrites

Init ==
  /\ table = [i \in DOMAIN Seeded |-> Record(i, Seeded[i])]
  /\ nextId = Len(Seeded) + 1
  /\ writes = 0
  /\ C!Init

(***************************************************************************)
(* The lookup.                                                             *)
(***************************************************************************)
\* matchPattern: a pattern p* matches every path that starts with p.
MatchPattern(p, path) == path = p.base \/ (p.star /\ <<p.base, path>> \in StartsWith)

Matches(p, r) == MatchPattern(p, r.path) /\ (p.method = None \/ p.method = r.method)

\* Mutant: the last match decides.
FindLastPolicy(rows, r) ==
  LET i == SelectLastInSeq(rows, LAMBDA x : Matches(x.policy, r))
  IN IF i = 0 THEN None ELSE rows[i]

\* The first policy that matches, None (deny) without one.
FindMatchingPolicy(rows, r) ==
  LET i == SelectInSeq(rows, LAMBDA x : Matches(x.policy, r))
  IN IF i = 0 THEN None ELSE rows[i]

(***************************************************************************)
(* getPolicies.                                                            *)
(***************************************************************************)
SelectPolicies(r) == C!Select(r) /\ UNCHANGED <<table, nextId, writes>>
StorePolicies(r) == C!Store(r) /\ UNCHANGED <<table, nextId, writes>>
DropPolicies(r) == C!Drop(r) /\ UNCHANGED <<table, nextId, writes>>
CopyExpire == C!Expire /\ UNCHANGED <<table, nextId, writes>>

(***************************************************************************)
(* POST and DELETE /route-policies.  The SELECT by id that precedes the    *)
(* DELETE only decides which of two statements answers 404.                *)
(***************************************************************************)
Write == writes < MaxWrites /\ writes' = writes + 1

\* Mutant: the next id is one more than there are rows.
InsertCounting(p) ==
  /\ table' = Append(table, Record(Len(table) + 1, p))
  /\ nextId' = nextId + 1

Insert(p) ==
  /\ table' = Append(table, Record(nextId, p))
  /\ nextId' = nextId + 1

DeleteId(id) ==
  /\ \E i \in DOMAIN table : table[i].id = id /\ table' = RemoveAt(table, i)
  /\ UNCHANGED nextId

Change == (\E p \in Creatable : Insert(p)) \/ (\E id \in Deletable : DeleteId(id))

CreateOrDelete(w) == Write /\ Change /\ C!Commit(w)
Invalidate(w) == C!InvalidateCache(w) /\ UNCHANGED <<table, nextId, writes>>
LoseAnswer(w) == CanFail /\ C!LoseAnswer(w) /\ UNCHANGED <<table, nextId, writes>>

\* The back office of another instance.
WriteElsewhere == Write /\ Change /\ C!WriteElsewhere

(***************************************************************************)
(* Properties.                                                             *)
(***************************************************************************)
CopyCurrent == C!CopyCurrent

\* A new policy, wherever it is added, never changes what an existing one
\* already decides: to tighten a path the older policy has to be deleted.
AppendKeepsDecisions ==
  [][nextId' > nextId =>
       \A r \in Requests :
         LET before == FindMatchingPolicy(table, r)
         IN before # None => FindMatchingPolicy(table', r) = before]_vars

\* A deleted policy is forgotten by this process in the end and for good,
\* whoever deleted it and whatever fills were on their way.
DeletedPolicyForgotten ==
  \A id \in Deletable :
    (id < nextId /\ id \notin Ids(table)) ~> [](copy # None => id \notin Ids(copy.rows))
=============================================================================
