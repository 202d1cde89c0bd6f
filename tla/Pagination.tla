------------------------------ MODULE Pagination ------------------------------
(***************************************************************************)
(* Listing projects or tasks page by page while the table changes.         *)
(*                                                                         *)
(*   app/modules/projects/router.py (list_projects)                        *)
(*   app/modules/tasks/router.py    (list_tasks)                           *)
(*   app/core/pagination.py, app/db/base.py (created_at)                   *)
(*                                                                         *)
(* Every page is a request of its own; between two pages rows are          *)
(* inserted, deleted and updated.  created_at is read from the clock of    *)
(* the inserting instance before the transaction commits, so a row may     *)
(* appear with any created_at, also one that another row has.              *)
(***************************************************************************)
EXTENDS Naturals, FiniteSets

CONSTANTS Ids,       \* a set of naturals: the ids in PostgreSQL's order
          Times,     \* the values of created_at
          MaxLimit,  \* the largest page (100 in the code)
          Null

VARIABLES table,     \* table[i]: the committed row i, or Null
          cursor,    \* the client's cursor, or Null
          phase,     \* "idle", "listing" or "ended"
          returned,  \* rows the listing returned
          again,     \* rows it returned more than once (history)
          steady     \* rows that matched ever since the first page (history)

vars == <<table, cursor, phase, returned, again, steady>>

Row == [created_at : Times, match : BOOLEAN]
Cursor == [created_at : Times, entity_id : Ids]

ASSUME PaginationAssumption ==
    /\ Ids \subseteq Nat /\ IsFiniteSet(Ids) /\ Times \subseteq Nat
    /\ MaxLimit \in Nat \ {0}
    /\ Null \notin Row \cup Cursor

TypeOK ==
    /\ table \in [Ids -> Row \cup {Null}]
    /\ cursor \in Cursor \cup {Null}
    /\ phase \in {"idle", "listing", "ended"}
    /\ returned \in SUBSET Ids /\ again \in SUBSET Ids /\ steady \in SUBSET Ids
    /\ cursor # Null => phase = "listing" /\ cursor.entity_id \in returned

Init ==
    /\ table \in [Ids -> Row \cup {Null}]
    /\ cursor = Null
    /\ phase = "idle"
    /\ returned = {} /\ again = {} /\ steady = {}

-----------------------------------------------------------------------------
(* The query                                                               *)

(* The rows of the organization that pass the filters.                     *)
Matching == {i \in Ids : table[i] # Null /\ table[i].match}

\* Faulty variant: the id does not break ties.
FollowsByTime(i, c) == table[i].created_at < c.created_at

(* The keyset condition of a cursor.                                       *)
Follows(i, c) ==
    \/ table[i].created_at < c.created_at
    \/ table[i].created_at = c.created_at /\ i < c.entity_id

(* encode_cursor, decode_cursor: isoformat keeps the microseconds and the  *)
(* UTC offset, so both columns come back as they were.                     *)
encode_cursor(i) == [created_at |-> table[i].created_at, entity_id |-> i]

Candidates == {i \in Matching : cursor # Null => Follows(i, cursor)}

(* created_at descending, id descending                                    *)
Precedes(i, j) ==
    \/ table[i].created_at > table[j].created_at
    \/ table[i].created_at = table[j].created_at /\ i > j

Last(S) == CHOOSE i \in S : \A j \in S \ {i} : Precedes(j, i)

(* ORDER BY ... LIMIT n                                                    *)
First(n) == {i \in Candidates : Cardinality({j \in Candidates : Precedes(j, i)}) < n}

\* Faulty variant: the cursor is the row after the page.
NextCursorPast(page, rows) ==
    IF rows = page THEN Null
    ELSE encode_cursor(Last(rows))

\* Faulty variant: the last page has a cursor too.
NextCursorAlways(page, rows) == IF page = {} THEN cursor ELSE encode_cursor(Last(page))

(* next_cursor: the last row of the page if there is another one.          *)
NextCursor(page, rows) ==
    IF rows = page \/ page = {} THEN Null
    ELSE encode_cursor(Last(page))

(* list_projects, list_tasks; the client goes on until there is no cursor. *)
Page(limit) ==
    /\ phase # "ended"
    /\ LET rows == First(limit + 1)
           page == First(limit)
       IN /\ cursor' = NextCursor(page, rows)
          /\ returned' = returned \cup page
          /\ again' = again \cup (returned \cap page)
    /\ phase' = IF cursor' = Null THEN "ended" ELSE "listing"
    /\ steady' = IF phase = "idle" THEN Matching ELSE steady
    /\ UNCHANGED table

-----------------------------------------------------------------------------
(* Other requests commit.  Ids are not reused: a row the listing has met    *)
(* does not come back.                                                      *)

Insert(i) ==
    /\ table[i] = Null /\ i \notin returned \cup steady
    /\ \E r \in Row : table' = [table EXCEPT ![i] = r]
    /\ UNCHANGED <<cursor, phase, returned, again, steady>>

Delete(i) ==
    /\ table[i] # Null
    /\ table' = [table EXCEPT ![i] = Null]
    /\ steady' = steady \ {i}
    /\ UNCHANGED <<cursor, phase, returned, again>>

(* An update changes whether the row passes the filters, never created_at. *)
Update(i) ==
    /\ table[i] # Null
    /\ table' = [table EXCEPT ![i].match = ~@]
    /\ steady' = steady \ {i}
    /\ UNCHANGED <<cursor, phase, returned, again>>

-----------------------------------------------------------------------------
NextPage == phase = "listing" /\ \E limit \in 1 .. MaxLimit : Page(limit)

Next ==
    \/ \E limit \in 1 .. MaxLimit : Page(limit)
    \/ \E i \in Ids : Insert(i) \/ Delete(i) \/ Update(i)

(* The client asks for the next page.                                      *)
Spec == Init /\ [][Next]_vars /\ WF_vars(NextPage)

-----------------------------------------------------------------------------
(* Properties                                                              *)

(* A listing is exact although the table changes under it: no row is       *)
(* returned twice, and when there is no next_cursor every row that matched *)
(* throughout was returned, rows with equal created_at at the end of a     *)
(* page included.                                                          *)
ListingExact == again = {} /\ (phase = "ended" => steady \subseteq returned)

(* A client that follows next_cursor comes to the end, whatever limits it  *)
(* chooses and whatever is inserted behind or before it.                   *)
ListingEnds == (phase = "listing") ~> (phase = "ended")
=============================================================================
