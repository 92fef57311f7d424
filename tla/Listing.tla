------------------------------- MODULE Listing ------------------------------
(***************************************************************************)
(* The lists of the API: Store.List of repository/base.go and ListAudits   *)
(* of repository/security.go, read page after page while other requests    *)
(* write.  Each page is two queries, a COUNT and a SELECT, and nothing     *)
(* holds the table still in between.                                       *)
(*                                                                         *)
(* A list is the sequence of the rows its WHERE clause lets through,       *)
(* latest first.  A row's updated_at only grows (the optimistic lock       *)
(* orders the writes of one row), so a write moves it towards the front;   *)
(* not always to it, because the time is taken before the write commits.   *)
(***************************************************************************)
EXTENDS Naturals, SequencesExt

CONSTANTS
  Rows,         \* the rows that may be in the list
  DefaultSize,  \* the page size in place of one out of range (20)
  MaxSize,      \* the largest page size (100)
  PageSizes,    \* the page sizes readers ask for
  MaxWrites     \* bound on the writes

ASSUME ListingAssumption ==
  /\ DefaultSize \in 1..MaxSize /\ MaxSize \in Nat
  /\ PageSizes \subseteq Nat /\ MaxWrites \in Nat
  /\ IsFiniteSet(Rows)

\* How a reader knows the last page: it is not full (a script), or the total
\* says so (createPagination in the front end).
Readers == {"until_short", "by_total"}

VARIABLES
  listed,   \* the rows of the list, in its order
  writes,
  reader,   \* how the reader decides that it is done
  phase,    \* its next step
  page, size, total, \* of the page at hand
  seen,     \* the rows on the pages it has read
  steady    \* the rows listed when it began that were not written since, or
            \* {} once a row has left the list

readVars == <<reader, phase, page, size, total, seen>>
vars == <<listed, writes, reader, phase, page, size, total, seen, steady>>

Init ==
  /\ listed \in SetToSeqs(Rows) \cup {<<>>} \cup {<<r>> : r \in Rows}
  /\ writes = 0
  /\ reader = "by_total" /\ phase = "idle"
  /\ page = 1 /\ size = DefaultSize /\ total = 0
  /\ seen = {} /\ steady = {}

\* Mutant: no upper bound.
BoundSizeBelow(asked) == IF asked < 1 THEN DefaultSize ELSE asked

\* bindPage, and normalizePage behind it, which finds nothing left to do.
BoundSize(asked) == IF asked < 1 \/ asked > MaxSize THEN DefaultSize ELSE asked

\* A reader begins a walk through the pages.
Begin ==
  /\ phase \in {"idle", "done"}
  /\ reader' \in Readers
  /\ \E asked \in PageSizes : size' = BoundSize(asked)
  /\ phase' = "count" /\ page' = 1 /\ total' = 0
  /\ seen' = {} /\ steady' = ToSet(listed)
  /\ UNCHANGED <<listed, writes>>

Count ==
  /\ phase = "count"
  /\ total' = Len(listed)
  /\ phase' = "select"
  /\ UNCHANGED <<listed, writes, reader, page, size, seen, steady>>

\* Mutant: pages counted from zero.
OnPageFromZero == {listed[i] : i \in (page * size + 1)..((page + 1) * size) \cap DOMAIN listed}

\* OFFSET (page - 1) * pageSize LIMIT pageSize.
OnPage == {listed[i] : i \in ((page - 1) * size + 1)..(page * size) \cap DOMAIN listed}

\* pages() in the front end: the total divided by the size, rounded up, at least 1.
Pages == IF total = 0 THEN 1 ELSE (total + size - 1) \div size

LastPage(items) ==
  IF reader = "by_total" THEN page >= Pages ELSE Cardinality(items) < size

Select ==
  /\ phase = "select"
  /\ seen' = seen \cup OnPage
  /\ IF LastPage(OnPage) THEN phase' = "done" /\ UNCHANGED page
     ELSE phase' = "count" /\ page' = page + 1
  /\ UNCHANGED <<listed, writes, reader, size, total, steady>>

\* A query fails, and the reader gives up.
GiveUp ==
  /\ phase \in {"count", "select"}
  /\ phase' = "idle"
  /\ UNCHANGED <<listed, writes, reader, page, size, total, seen, steady>>

(***************************************************************************)
(* Writes.                                                                 *)
(***************************************************************************)
Write == writes < MaxWrites /\ writes' = writes + 1 /\ UNCHANGED readVars

\* A record is created or an audit entry appended, or a write lets a row through
\* the filter: it is anywhere in the list.
Enter(r) ==
  /\ Write
  /\ r \notin ToSet(listed)
  /\ \E i \in 1..(Len(listed) + 1) : listed' = InsertAt(listed, i, r)
  /\ steady' = steady \ {r}

\* Mutant: the oldest first.
TouchBackward(r) ==
  /\ Write
  /\ \E i, j \in DOMAIN listed :
       /\ listed[j] = r /\ i >= j
       /\ listed' = InsertAt(RemoveAt(listed, j), i, r)
  /\ steady' = steady \ {r}

\* A write of a listed row, which stays listed.
Touch(r) ==
  /\ Write
  /\ \E i, j \in DOMAIN listed :
       /\ listed[j] = r /\ i <= j
       /\ listed' = InsertAt(RemoveAt(listed, j), i, r)
  /\ steady' = steady \ {r}

\* A row is deleted, or a write takes it out of the filter.  Those behind it move
\* towards the front: no walk by offsets can be relied on.
Leave(r) ==
  /\ Write
  /\ \E i \in DOMAIN listed : listed[i] = r /\ listed' = RemoveAt(listed, i)
  /\ steady' = {}

Next ==
  \/ Begin \/ Count \/ Select \/ GiveUp
  \/ \E r \in Rows : Enter(r) \/ Touch(r) \/ Leave(r)

Spec == Init /\ [][Next]_vars

-----------------------------------------------------------------------------
\* Every variable has its type: a page within the bounds, a list without
\* repetitions.
TypeOK ==
  /\ listed \in Seq(Rows) /\ IsInjective(listed)
  /\ writes \in 0..MaxWrites
  /\ reader \in Readers /\ phase \in {"idle", "count", "select", "done"}
  /\ page \in Nat \ {0} /\ size \in 1..MaxSize /\ total \in 0..Cardinality(Rows)
  /\ seen \subseteq Rows /\ steady \subseteq Rows

\* Latest first is the order that can be paged through while rows are written: a
\* reader who goes on to a page that is not full has seen every row that was
\* there all the time and that nobody wrote, as long as no row left the list.
WalkSeesAll == phase = "done" /\ reader = "until_short" => steady \subseteq seen

\* "Store centralizes consistent paging": so has a reader who reads the pages
\* the total announces.
PagesAddUp == phase = "done" /\ reader = "by_total" => steady \subseteq seen
=============================================================================
