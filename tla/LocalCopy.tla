------------------------------ MODULE LocalCopy ------------------------------
(***************************************************************************)
(* The copy of a Postgres table that one server process keeps in a         *)
(* module-level variable for 60 s: `cache' of repos/routePolicyRepo.ts and *)
(* repos/scopeRepo.ts (the two are the same code) and `jwksCache' of       *)
(* jwt.ts, which nothing invalidates.                                      *)
(*                                                                         *)
(* A reader that finds no copy SELECTs, and assigns the variable when the  *)
(* rows arrive; a writer of the same process clears the variable when its  *)
(* statement has answered.  In between anything may happen, and other      *)
(* processes write the table without telling this one.                     *)
(*                                                                         *)
(* The table is a variable of the module that instances this one.          *)
(***************************************************************************)
CONSTANTS Readers,  \* handlers of this process that may need the copy at once
          Writers,  \* handlers of this process that may write the table at once
          None

VARIABLES
  table,    \* what is in Postgres, as a SELECT returns it
  copy,     \* the process' copy: [rows, late], None when cleared or too old
  fill,     \* the rows a reader has been sent and not stored yet, or None
  writing   \* writers whose statement has taken effect and not yet answered

\* `late' is history: the table was written after these rows were read, and the
\* invalidation came too early for them, or never came.
Rows(rows, late) == [rows |-> rows, late |-> late]
Late(x) == IF x = None THEN None ELSE [x EXCEPT !.late = TRUE]
AllLate == [r \in Readers |-> Late(fill[r])]

TypeOK(Tables) ==
  /\ table \in Tables
  /\ copy \in [rows : Tables, late : BOOLEAN] \cup {None}
  /\ fill \in [Readers -> [rows : Tables, late : BOOLEAN] \cup {None}]
  /\ writing \in SUBSET Writers

Init ==
  /\ copy = None
  /\ fill = [r \in Readers |-> None]
  /\ writing = {}

\* No copy, or one older than CACHE_TTL_MS: SELECT.
Select(r) ==
  /\ copy = None /\ fill[r] = None
  /\ fill' = [fill EXCEPT ![r] = Rows(table, FALSE)]
  /\ UNCHANGED <<copy, writing>>

\* cache = { ..., expiresAt }, whatever it is by now.
Store(r) ==
  /\ fill[r] # None
  /\ copy' = fill[r]
  /\ fill' = [fill EXCEPT ![r] = None]
  /\ UNCHANGED writing

\* A reader that stops while its SELECT is on the way stores nothing.
Drop(r) ==
  /\ fill[r] # None
  /\ fill' = [fill EXCEPT ![r] = None]
  /\ UNCHANGED <<copy, writing>>

\* A writer's INSERT or DELETE takes effect (table' is the instance's business).
Commit(w) ==
  /\ w \notin writing
  /\ writing' = writing \cup {w}
  /\ UNCHANGED <<copy, fill>>

\* Mutant: the writer does not clear the copy.
InvalidateNothing(w) ==
  /\ w \in writing
  /\ writing' = writing \ {w}
  /\ UNCHANGED <<copy, fill>>

\* ... and has answered: invalidateCache.
InvalidateCache(w) ==
  /\ w \in writing
  /\ copy' = None
  /\ fill' = AllLate
  /\ writing' = writing \ {w}

\* The answer of the statement is lost: it throws, and nothing is invalidated.
LoseAnswer(w) ==
  /\ w \in writing
  /\ copy' = Late(copy)
  /\ fill' = AllLate
  /\ writing' = writing \ {w}

\* Another process writes the table.
WriteElsewhere ==
  /\ copy' = Late(copy)
  /\ fill' = AllLate
  /\ UNCHANGED writing

\* Mutant: the copy has no TTL.
NeverExpire == FALSE /\ UNCHANGED <<copy, fill, writing>>

Expire ==
  /\ copy # None
  /\ copy' = None
  /\ UNCHANGED <<fill, writing>>

\* All that the instances do: the table changes only in a Commit or elsewhere.
Next ==
  \/ \E r \in Readers : (Select(r) \/ Store(r) \/ Drop(r)) /\ UNCHANGED table
  \/ \E w \in Writers : Commit(w)
  \/ \E w \in Writers : (InvalidateCache(w) \/ LoseAnswer(w)) /\ UNCHANGED table
  \/ WriteElsewhere
  \/ Expire /\ UNCHANGED table

vars == <<table, copy, fill, writing>>
Spec == Init /\ [][Next]_vars

(***************************************************************************)
(* Properties.                                                             *)
(***************************************************************************)
\* `Writing invalidates the copy' (the header of both repositories): whenever
\* no writer of this process is waiting for its answer, the copy is the table,
\* but for rows that another process changed, or whose SELECT was on its way
\* when a writer cleared the copy, or whose writer's answer was lost.
CopyCurrent == copy # None /\ ~copy.late /\ writing = {} => copy.rows = table
=============================================================================
