------------------------------ MODULE CompanyApp ------------------------------
(***************************************************************************)
(* The company application as a proxied request meets it: its accounts and *)
(* routes (company-mock/src/users.ts, index.ts) and the paged list of      *)
(* orders (data.ts).  Its token store is in CompanyRefresher.  Everything  *)
(* here is a pure definition; the instance is the mock's own data.         *)
(***************************************************************************)
EXTENDS Naturals, Sequences, SequencesExt

CONSTANTS PageMax, PageDefault,  \* 100 and 20 in the code
          MaxOrders,             \* bound: orders of the users the walk is checked for
          None

PageAssumption ==
  /\ PageMax \in Nat \ {0} /\ PageDefault \in 1 .. PageMax /\ MaxOrders \in Nat
  /\ None \notin 1 .. MaxOrders

(***************************************************************************)
(* Who may do what.                                                        *)
(***************************************************************************)
Business == {"orders:read", "orders:write", "products:read", "invoices:read", "admin"}

\* MOCK_ACCOUNTS
ScopesOf ==
  [alice |-> Business,
   bob   |-> {},
   carol |-> {"orders:read", "products:read"},
   dave  |-> {"invoices:read"},
   erin  |-> {"admin"}]

\* What requireScope asks for on a GET of each protected path; None where
\* requireAuth alone decides.
Needs ==
  [path \in {"/me", "/api/profile", "/api/orders", "/api/orders/:id", "/api/products",
             "/api/products/:id", "/api/invoices", "/api/admin/users"} |->
     CASE path \in {"/me", "/api/profile"}                  -> None
       [] path \in {"/api/orders", "/api/orders/:id"}       -> "orders:read"
       [] path \in {"/api/products", "/api/products/:id"}   -> "products:read"
       [] path = "/api/invoices"                            -> "invoices:read"
       [] path = "/api/admin/users"                         -> "admin"]

\* The path of a detail route extends the path of its list.
StartsWith == {<<"/api/orders", "/api/orders/:id">>, <<"/api/products", "/api/products/:id">>}

\* A request with a valid token of `user' gets past requireScope.
Served(user, r) ==
  /\ r.method = "GET" /\ r.path \in DOMAIN Needs
  /\ Needs[r.path] = None \/ Needs[r.path] \in ScopesOf[user]

(***************************************************************************)
(* GET /api/orders?limit=&cursor=.  A limit is a finite number or absent;  *)
(* it is given here in halves, so that 1 stands for 0.5.                   *)
(***************************************************************************)
Smaller(m, n) == IF m < n THEN m ELSE n

\* Mutant: the page starts at the cursor, not after it.
StartAt(all, cursor) ==
  IF cursor = None THEN 0 ELSE LET i == SelectInSeq(all, LAMBDA o : o = cursor)
                               IN IF i = 0 THEN 0 ELSE i - 1

\* How many orders come before the page: up to the cursor, or none when the
\* cursor is not an order of this user.
StartIdx(all, cursor) ==
  IF cursor = None THEN 0 ELSE SelectInSeq(all, LAMBDA o : o = cursor)

OrdersByUserPaged(all, halves, cursor) ==
  LET limit == IF halves > 0 THEN Smaller(halves, 2 * PageMax) ELSE 2 * PageDefault
      start == StartIdx(all, cursor)
      items == SubSeq(all, start + 1, Smaller((2 * start + limit) \div 2, Len(all)))
      more  == 2 * start + limit < 2 * Len(all)
  IN [items   |-> items,
      hasMore |-> more,
      next    |-> IF more /\ items # <<>> THEN Last(items) ELSE None]

\* What a client has collected before its first request, and after one more.
Begun == [got |-> <<>>, cursor |-> None, more |-> TRUE]

Follow(all, halves, last) ==
  LET page == OrdersByUserPaged(all, halves, last.cursor)
  IN IF last.more
     THEN [got    |-> last.got \o page.items,
           cursor |-> page.next,
           more   |-> page.next # None]
     ELSE last

\* ... and in n requests, following nextCursor until it is null.
Walk(all, halves, n) ==
  LET w[k \in 0 .. n] == IF k = 0 THEN Begun ELSE Follow(all, halves, w[k - 1])
  IN w[n]

(***************************************************************************)
(* Properties.                                                             *)
(***************************************************************************)
\* Following nextCursor (data.ts:204) gives a user every order once, in order,
\* and comes to an end, for every number of orders and every limit, absent,
\* negative, fractional or too large; but not for one between 0 and 1, whose
\* empty page says hasMore and has no cursor to go on with.
PagingComplete ==
  \A n \in 0 .. MaxOrders, halves \in (0 .. 2 * PageMax + 2) \ {1} :
    LET all == [i \in 1 .. n |-> i]
        w   == Walk(all, halves, n + 1)
    IN w.got = all /\ ~w.more
=============================================================================
