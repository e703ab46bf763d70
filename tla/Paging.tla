------------------------------- MODULE Paging -------------------------------
(***************************************************************************)
(* Keyset pagination as the repositories' list and search queries do it.   *)
(* A row is a record with a time stamp (at) and an id; a cursor is the     *)
(* stamp and the id of the last row of a page, written "date|id".          *)
(***************************************************************************)
EXTENDS Naturals, FiniteSets

\* ORDER BY at DESC, id DESC: x comes before y.
Newer(x, y) == x.at > y.at \/ (x.at = y.at /\ x.id > y.id)

NoCursor == [at |-> 0, id |-> 0]     \* ids are positive

\* The rows behind a cursor: at < ? OR (at = ? AND id < ?).
Behind(rows, c) == IF c = NoCursor THEN rows ELSE {x \in rows : Newer(c, x)}

\* The first k rows of a set in that order, all of it when it is smaller.
First(rows, k) == {x \in rows : Cardinality({y \in rows : Newer(y, x)}) < k}

\* LIMIT k + 1: the row beyond the page only tells that there is a next one.
IsLastOf(x, page) == x \in page /\ \A y \in page : ~Newer(x, y)
NextCursor(rows, k) ==
    IF Cardinality(rows) <= k THEN NoCursor
    ELSE CHOOSE x \in First(rows, k) : IsLastOf(x, First(rows, k))
=============================================================================
