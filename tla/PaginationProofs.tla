--------------------------- MODULE PaginationProofs ---------------------------
(***************************************************************************)
(* A listing is exact for any table, any number of equal created_at and    *)
(* any page size.                                                          *)
(*                                                                         *)
(* First(n), the page of ORDER BY ... LIMIT n, is defined by the rank of a *)
(* row.  The lemmas about it say what list_projects and list_tasks take    *)
(* for granted: a page has a last row, it holds at most n rows, the rows   *)
(* left out come after its last row, and a query for one row more that     *)
(* returns nothing new has seen everything.                                *)
(***************************************************************************)
EXTENDS Pagination, FiniteSetTheorems, WellFoundedInduction, TLAPS

(* A listing that goes on has a cursor; one that has not begun has nothing.*)
PhaseInv ==
    /\ phase = "listing" <=> cursor # Null
    /\ phase = "idle" => returned = {} /\ steady = {}

(* No row that was returned lies ahead of the cursor.                      *)
Passed == \A i \in returned : cursor # Null /\ table[i] # Null => ~Follows(i, cursor)

(* A row that matches since the first page was returned or lies ahead.     *)
Awaited ==
    /\ steady \subseteq Matching
    /\ \A i \in steady \ returned : cursor # Null /\ Follows(i, cursor)

IndInv ==
    /\ TypeOK
    /\ PhaseInv
    /\ Passed
    /\ Awaited
    /\ again = {}

-----------------------------------------------------------------------------
(* The order of the rows                                                   *)

(* A nonempty set of naturals has a least element.                         *)
LEMMA LeastNat ==
    ASSUME NEW T \in SUBSET Nat, T # {}
    PROVE  \E x \in T : \A y \in T : x <= y
  <1>1. PICK x \in T : \A y \in T : ~(<<y, x>> \in OpToRel(<, Nat))
    BY NatLessThanWellFounded, WFMin
  <1>2. \A y \in T : ~(y < x)
    BY <1>1 DEF OpToRel
  <1> QED
    BY <1>2

(* A matching row has a created_at that can be compared.                   *)
LEMMA MatchingRow ==
    ASSUME TypeOK, NEW i \in Matching
    PROVE  i \in Ids /\ i \in Nat /\ table[i] # Null /\ table[i].created_at \in Times
             /\ table[i].created_at \in Nat
  BY PaginationAssumption DEF TypeOK, Matching, Row

(* Rows are ordered without ties.                                          *)
LEMMA PrecedesOrder ==
    ASSUME TypeOK
    PROVE  /\ \A i \in Matching : ~Precedes(i, i)
           /\ \A i, j \in Matching : i = j \/ Precedes(i, j) \/ Precedes(j, i)
           /\ \A i, j, k \in Matching : Precedes(i, j) /\ Precedes(j, k) => Precedes(i, k)
  BY MatchingRow DEF Precedes

(* The number of rows of the query before row i.                           *)
Before(i) == {j \in Candidates : Precedes(j, i)}
Rank(i) == Cardinality(Before(i))

(* Ranks are naturals.                                                     *)
LEMMA RankType ==
    ASSUME TypeOK
    PROVE  /\ Candidates \subseteq Matching /\ IsFiniteSet(Candidates)
           /\ \A i \in Candidates : IsFiniteSet(Before(i)) /\ Rank(i) \in Nat
  <1>1. Candidates \in SUBSET Ids /\ Candidates \subseteq Matching
    BY DEF Candidates, Matching
  <1>2. IsFiniteSet(Candidates)
    BY <1>1, FS_Subset, PaginationAssumption
  <1>3. ASSUME NEW i \in Candidates PROVE IsFiniteSet(Before(i)) /\ Rank(i) \in Nat
    <2>1. Before(i) \in SUBSET Candidates
      BY DEF Before
    <2>2. IsFiniteSet(Before(i))
      BY <1>2, <2>1, FS_Subset
    <2> QED
      BY <2>2, FS_CardinalityType DEF Rank
  <1> QED
    BY <1>1, <1>2, <1>3

(* A row that comes earlier has a smaller rank.                            *)
LEMMA RankMonotone ==
    ASSUME TypeOK, NEW i \in Candidates, NEW j \in Candidates, Precedes(j, i)
    PROVE  Rank(j) < Rank(i)
  <1>1. Before(j) \in SUBSET Before(i)
    BY RankType, PrecedesOrder DEF Before
  <1>2. j \in Before(i) /\ j \notin Before(j)
    BY RankType, PrecedesOrder DEF Before
  <1>3. IsFiniteSet(Before(i)) /\ Rank(i) \in Nat /\ Rank(j) \in Nat
    BY RankType
  <1>4. Cardinality(Before(j)) <= Cardinality(Before(i))
    BY <1>1, <1>3, FS_Subset
  <1>5. Cardinality(Before(i)) # Cardinality(Before(j))
    BY <1>1, <1>2, <1>3, FS_Subset
  <1> QED
    BY <1>3, <1>4, <1>5 DEF Rank

-----------------------------------------------------------------------------
(* ORDER BY ... LIMIT n                                                    *)

(* A page that is not empty has a last row.                                *)
LEMMA LastOfPage ==
    ASSUME TypeOK, NEW n \in Nat, First(n) # {}
    PROVE  /\ Last(First(n)) \in First(n)
           /\ \A j \in First(n) \ {Last(First(n))} : Precedes(j, Last(First(n)))
  <1>1. \A i \in First(n) : i \in Candidates /\ Rank(i) \in Nat /\ Rank(i) < n
    BY RankType DEF First, Rank, Before
  <1> DEFINE T == {n - Rank(i) : i \in First(n)}
  <1>2. T \in SUBSET Nat /\ T # {}
    BY <1>1
  <1>3. PICK x \in T : \A y \in T : x <= y
    BY <1>2, LeastNat
  <1>4. PICK l \in First(n) : x = n - Rank(l)
    OBVIOUS
  <1>5. \A j \in First(n) : Rank(j) <= Rank(l)
    <2> SUFFICES ASSUME NEW j \in First(n) PROVE Rank(j) <= Rank(l)
      OBVIOUS
    <2>1. n - Rank(l) <= n - Rank(j)
      BY <1>3, <1>4
    <2> QED
      BY <1>1, <2>1
  <1>6. \A j \in First(n) \ {l} : Precedes(j, l)
    <2> SUFFICES ASSUME NEW j \in First(n), j # l PROVE Precedes(j, l)
      OBVIOUS
    <2>1. j \in Candidates /\ l \in Candidates
      BY <1>1
    <2>2. ~Precedes(l, j)
      BY <1>1, <1>5, <2>1, RankMonotone
    <2> QED
      BY <2>1, <2>2, RankType, PrecedesOrder
  <1> QED
    BY <1>6 DEF Last

(* A page has at most n rows.                                              *)
LEMMA PageSize ==
    ASSUME TypeOK, NEW n \in Nat
    PROVE  IsFiniteSet(First(n)) /\ Cardinality(First(n)) <= n
  <1>1. First(n) \in SUBSET Candidates
    BY DEF First
  <1>2. IsFiniteSet(First(n))
    BY <1>1, RankType, FS_Subset
  <1>3. CASE First(n) = {}
    BY <1>2, <1>3, FS_EmptySet
  <1>4. CASE First(n) # {}
    <2>1. PICK l \in First(n) : \A j \in First(n) \ {l} : Precedes(j, l)
      BY <1>4, LastOfPage
    <2>2. l \in Candidates /\ IsFiniteSet(Before(l)) /\ Rank(l) \in Nat /\ Rank(l) < n
      BY <1>1, RankType DEF First, Rank, Before
    <2>3. First(n) \in SUBSET (Before(l) \cup {l})
      BY <1>1, <2>1 DEF Before
    <2>4. IsFiniteSet(Before(l) \cup {l})
      BY <2>2, FS_AddElement
    <2>5. Cardinality(Before(l) \cup {l}) \in {Rank(l), Rank(l) + 1}
      BY <2>2, FS_AddElement DEF Rank
    <2>6. Cardinality(First(n)) <= Cardinality(Before(l) \cup {l})
      BY <2>3, <2>4, FS_Subset
    <2>7. Cardinality(First(n)) \in Nat
      BY <1>2, FS_CardinalityType
    <2> QED
      BY <1>2, <2>2, <2>5, <2>6, <2>7
  <1> QED
    BY <1>3, <1>4

(* The test for another page: when one row more is asked for and none      *)
(* comes, or when a page is empty, the query has no other row.             *)
LEMMA LastPage ==
    ASSUME TypeOK, NEW n \in Nat \ {0}, First(n + 1) = First(n) \/ First(n) = {}
    PROVE  First(n) = Candidates
  <1> SUFFICES ASSUME Candidates \ First(n) # {} PROVE FALSE
    BY DEF First
  <1> DEFINE Rest == Candidates \ First(n)
             T == {Rank(i) : i \in Rest}
  <1>1. T \in SUBSET Nat /\ T # {}
    BY RankType
  <1>2. PICK x \in T : \A y \in T : x <= y
    BY <1>1, LeastNat
  <1>3. PICK m \in Rest : x = Rank(m)
    OBVIOUS
  <1>4. m \in Candidates /\ Rank(m) \in Nat /\ Rank(m) >= n
    BY RankType DEF First, Rank, Before
  <1>5. Before(m) \in SUBSET First(n)
    <2> SUFFICES ASSUME NEW j \in Before(m), j \notin First(n) PROVE FALSE
      OBVIOUS
    <2>1. j \in Candidates /\ Precedes(j, m)
      BY DEF Before
    <2>2. Rank(j) < Rank(m) /\ Rank(j) \in Nat
      BY <1>4, <2>1, RankMonotone, RankType
    <2>3. Rank(m) <= Rank(j)
      BY <1>2, <1>3, <2>1
    <2> QED
      BY <1>4, <2>2, <2>3
  <1>6. Rank(m) <= Cardinality(First(n)) /\ Cardinality(First(n)) <= n
    BY <1>5, PageSize, FS_Subset DEF Rank
  <1>7. Cardinality(First(n)) \in Nat
    BY PageSize, FS_CardinalityType
  <1>8. Rank(m) = n /\ Cardinality(First(n)) = n
    BY <1>4, <1>6, <1>7
  <1>9. First(n) # {}
    BY <1>8, FS_EmptySet
  <1>10. m \in First(n + 1)
    BY <1>4, <1>8 DEF First, Rank, Before
  <1> QED
    BY <1>9, <1>10

(* The rows a page leaves out come after its last row.                     *)
LEMMA LeftOut ==
    ASSUME TypeOK, NEW n \in Nat, First(n) # {}, NEW i \in Candidates \ First(n)
    PROVE  Precedes(Last(First(n)), i)
  <1>1. PICK l \in First(n) : l = Last(First(n))
    BY LastOfPage
  <1>2. l \in Candidates /\ Rank(l) \in Nat /\ Rank(l) < n
    BY RankType DEF First, Rank, Before
  <1>3. Rank(i) \in Nat /\ ~(Rank(i) < n)
    BY RankType DEF First, Rank, Before
  <1>4. ~Precedes(i, l)
    BY <1>2, <1>3, RankMonotone
  <1> QED
    BY <1>1, <1>2, <1>4, RankType, PrecedesOrder

-----------------------------------------------------------------------------
(* The steps                                                               *)

(* Nothing has been listed.                                                *)
LEMMA InitInv == Init => IndInv
  BY PaginationAssumption DEF Init, IndInv, TypeOK, PhaseInv, Passed, Awaited

(* A page returns only rows ahead of the cursor; what it leaves out lies   *)
(* ahead of the next one.                                                  *)
LEMMA PageKeeps ==
    ASSUME IndInv, NEW n \in 1 .. MaxLimit, Page(n)
    PROVE  IndInv'
  <1> USE PaginationAssumption DEF IndInv
  <1> n \in Nat \ {0}
    OBVIOUS
  <1>1. PICK page \in SUBSET Ids : page = First(n) /\ page \subseteq Candidates
    BY DEF First, Candidates, Matching
  <1>2. /\ cursor' = NextCursor(page, First(n + 1)) /\ returned' = returned \cup page
        /\ again' = again \cup (returned \cap page)
        /\ phase' = IF cursor' = Null THEN "ended" ELSE "listing"
        /\ steady' = (IF phase = "idle" THEN Matching ELSE steady) /\ table' = table
    BY <1>1 DEF Page
  <1>3. cursor = Null => phase = "idle"
    BY DEF Page, PhaseInv, TypeOK
  <1>4. returned \cap page = {}
    BY <1>1, <1>3 DEF Candidates, Matching, Passed, PhaseInv
  <1>5. steady' \subseteq Matching
    BY <1>2 DEF Awaited
  <1>6. steady' \subseteq returned \cup Candidates
    BY <1>2, <1>3, <1>5 DEF Awaited, Candidates, PhaseInv
  <1>7. Matching' = Matching
    BY <1>2 DEF Matching
  <1>8. CASE First(n + 1) = page \/ page = {}
    <2>1. cursor' = Null /\ phase' = "ended"
      BY <1>2, <1>8 DEF NextCursor
    <2>2. page = Candidates
      BY <1>1, <1>8, LastPage
    <2>3. TypeOK' /\ PhaseInv' /\ Passed'
      BY <1>1, <1>2, <1>5, <2>1 DEF TypeOK, PhaseInv, Passed, Matching
    <2>4. Awaited'
      BY <1>2, <1>5, <1>6, <1>7, <2>2 DEF Awaited
    <2> QED
      BY <1>2, <1>4, <2>3, <2>4
  <1>9. CASE First(n + 1) # page /\ page # {}
    <2>1. PICK l \in page : /\ l = Last(page)
                            /\ \A j \in page \ {l} : Precedes(j, l)
                            /\ \A j \in Candidates \ page : Precedes(l, j)
      BY <1>1, <1>9, LastOfPage, LeftOut
    <2>2. l \in Candidates /\ l \in Matching /\ l \in Ids /\ l \in Nat
      BY <1>1, RankType, MatchingRow
    <2>3. table[l].created_at \in Times /\ table[l].created_at \in Nat /\ table[l] # Null
      BY <2>2, MatchingRow
    <2>4. PICK c \in Cursor : /\ c = cursor' /\ c.created_at = table[l].created_at
                              /\ c.entity_id = l
      <3> DEFINE d == [created_at |-> table[l].created_at, entity_id |-> l]
      <3>1. cursor' = d
        BY <1>2, <1>9, <2>1 DEF NextCursor, encode_cursor
      <3> d \in Cursor /\ d = cursor' /\ d.created_at = table[l].created_at /\ d.entity_id = l
        BY <2>2, <2>3, <3>1 DEF Cursor
      <3> WITNESS d \in Cursor
      <3> QED
        OBVIOUS
    <2>5. c # Null /\ phase' = "listing" /\ l \in returned'
      BY <1>2, <2>1, <2>4
    <2>6. TypeOK' /\ PhaseInv'
      BY <1>1, <1>2, <1>5, <2>4, <2>5 DEF TypeOK, PhaseInv, Matching
    <2>7. \A j \in page : ~Follows(j, c)
      <3> SUFFICES ASSUME NEW j \in page PROVE ~Follows(j, c)
        OBVIOUS
      <3>1. j \in Nat /\ table[j].created_at \in Nat
        BY <1>1, RankType, MatchingRow
      <3> QED
        BY <2>1, <2>2, <2>3, <2>4, <3>1 DEF Follows, Precedes
    <2>8. \A j \in returned : table[j] # Null => ~Follows(j, c)
      <3> SUFFICES ASSUME NEW j \in returned, table[j] # Null, Follows(j, c) PROVE FALSE
        OBVIOUS
      <3>1. j \in Nat /\ table[j].created_at \in Nat
        BY DEF TypeOK, Row
      <3>2. cursor # Null /\ cursor \in Cursor
        BY <1>3 DEF PhaseInv, TypeOK
      <3>3. cursor.created_at \in Nat /\ cursor.entity_id \in Nat
        BY <3>2 DEF Cursor
      <3>4. Follows(l, cursor) /\ ~Follows(j, cursor)
        BY <2>2, <3>2 DEF Candidates, Passed
      <3> QED
        BY <2>2, <2>3, <2>4, <3>1, <3>3, <3>4 DEF Follows
    <2>9. Passed'
      BY <1>2, <2>4, <2>7, <2>8 DEF Passed, Follows
    <2>10. \A j \in Candidates \ page : Follows(j, c)
      <3> SUFFICES ASSUME NEW j \in Candidates \ page PROVE Follows(j, c)
        OBVIOUS
      <3>1. j \in Nat /\ table[j].created_at \in Nat
        BY RankType, MatchingRow
      <3> QED
        BY <2>1, <2>2, <2>3, <2>4, <3>1 DEF Follows, Precedes
    <2>11. Awaited'
      BY <1>2, <1>5, <1>6, <1>7, <2>4, <2>5, <2>10 DEF Awaited, Follows
    <2> QED
      BY <1>2, <1>4, <2>6, <2>9, <2>11
  <1> QED
    BY <1>8, <1>9

(* Other requests change neither the created_at of a row nor its id, and   *)
(* use no id twice.                                                        *)
LEMMA TableStepKeeps ==
    ASSUME IndInv, NEW i \in Ids, NEW r \in Row \cup {Null},
           table' = [table EXCEPT ![i] = r],
           UNCHANGED <<cursor, phase, returned, again>>,
           steady' \in SUBSET steady, i \notin steady',
           i \in returned /\ r # Null => table[i] # Null /\ r.created_at = table[i].created_at
    PROVE  IndInv'
  <1> USE PaginationAssumption DEF IndInv
  <1>1. table'[i] = r /\ \A j \in Ids \ {i} : table'[j] = table[j]
    BY DEF TypeOK
  <1>2. TypeOK' /\ PhaseInv'
    BY DEF TypeOK, PhaseInv
  <1>3. Passed'
    BY <1>1 DEF Passed, Follows, TypeOK
  <1>4. Awaited'
    BY <1>1 DEF Awaited, Follows, Matching
  <1> QED
    BY <1>2, <1>3, <1>4

(* Inserts, deletes and updates of rows.                                   *)
LEMMA ChangeKeeps ==
    ASSUME IndInv, NEW i \in Ids, Insert(i) \/ Delete(i) \/ Update(i)
    PROVE  IndInv'
  <1> USE PaginationAssumption
  <1>1. CASE Insert(i)
    BY <1>1, TableStepKeeps DEF Insert
  <1>2. CASE Delete(i)
    BY <1>2, TableStepKeeps DEF Delete
  <1>3. CASE Update(i)
    <2>1. table[i] \in Row /\ table[i] # Null
      BY <1>3 DEF Update, IndInv, TypeOK
    <2>2. PICK r \in Row : r = [table[i] EXCEPT !.match = ~@]
                            /\ r.created_at = table[i].created_at
      <3> DEFINE s == [table[i] EXCEPT !.match = ~@]
      <3> s \in Row /\ s.created_at = table[i].created_at
        BY <2>1 DEF Row
      <3> WITNESS s \in Row
      <3> QED
        OBVIOUS
    <2>3. table' = [table EXCEPT ![i] = r]
      BY <1>3, <2>2 DEF Update
    <2> QED
      BY <1>3, <2>1, <2>2, <2>3, TableStepKeeps DEF Update
  <1> QED
    BY <1>1, <1>2, <1>3

(* Every step keeps the invariant.                                         *)
LEMMA NextKeeps == IndInv /\ [Next]_vars => IndInv'
  <1>1. ASSUME IndInv, Next PROVE IndInv'
    BY <1>1, PageKeeps, ChangeKeeps DEF Next
  <1>2. ASSUME IndInv, UNCHANGED vars PROVE IndInv'
    BY <1>2 DEF vars, IndInv, TypeOK, PhaseInv, Passed, Awaited, Matching, Follows
  <1> QED
    BY <1>1, <1>2

(* The invariant holds in every reachable state.                           *)
LEMMA InvHolds == Spec => []IndInv
  BY InitInv, NextKeeps, PTL DEF Spec

-----------------------------------------------------------------------------
(* What a listing promises                                                 *)

(* Every variable keeps its type.                                          *)
THEOREM TypeCorrect == Spec => []TypeOK
  <1>1. IndInv => TypeOK
    BY DEF IndInv
  <1> QED
    BY <1>1, InvHolds, PTL

(* Whatever is inserted, deleted or updated between two pages, and however *)
(* many rows share a created_at, a listing returns no row twice and, once  *)
(* there is no next_cursor, has returned every row that matched throughout.*)
THEOREM ListingAlwaysExact == Spec => []ListingExact
  <1>1. IndInv => ListingExact
    BY DEF IndInv, PhaseInv, Awaited, ListingExact
  <1> QED
    BY <1>1, InvHolds, PTL

===============================================================================
