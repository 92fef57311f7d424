----------------------------- MODULE MCPlatform -----------------------------
(***************************************************************************)
(* Values of Platform's constants for TLC.  A configuration chooses which  *)
(* records exist, which of them are seeded, and which endpoints are used.  *)
(***************************************************************************)
EXTENDS Platform, FiniteSetsExt

CONSTANTS g1, p1, p2, m1, m2, k1, c1, c2

\* One caller of the highest role and one operator or reviewer.
AdminAndOperator == [c \in Clients |-> IF c = c1 THEN "admin" ELSE "operator"]
AdminAndReviewer == [c \in Clients |-> IF c = c1 THEN "admin" ELSE "reviewer"]

SeedRow(status, data) ==
  [life |-> "live", status |-> status, version |-> 1, data |-> data]

Permit(expires) == [BlankData EXCEPT !.expires = expires]

\* Seeded rows of database.Seed, by kind.
SeedOf(r, manifest, check) ==
  CASE r \in Generators -> SeedRow("active", Permit(1))
    [] r \in Carriers   -> SeedRow("verified", Permit(1))
    [] r \in Manifests  -> SeedRow(manifest, [BlankData EXCEPT !.generator = g1, !.carrier = p1])
    [] r \in Checks     -> SeedRow(check, [BlankData EXCEPT !.manifest = m1])

\* The tables when InitialRows has the rows of `present' only: manifests of g1
\* and p1 in the given status, checks of m1.
Tables(present, manifest, check) ==
  [r \in Records |-> IF r \in present THEN SeedOf(r, manifest, check) ELSE NoRow]

EmptyTables    == Tables({}, "draft", "pending")
SeededParties   == Tables({g1, p1}, "draft", "pending")
SeededManifests == Tables({g1, p1, m1, m2}, "submitted", "pending")
SeededDraft    == Tables(Records, "draft", "pending")

\* The bound of the runs with records of several kinds: once so many writes are
\* committed, whichever records they are of, a behaviour is not followed further.
Committed ==
  MapThenSumSet(LAMBDA r : Writes(r) + (IF rows[r].life = "deleted" THEN 1 ELSE 0), Records)
ThreeWrites == Committed < 3
FourWrites  == Committed < 4

All(kind) == {kind} \X Operations

PermitRoutes   == All("generator") \cup All("carrier")
ManifestRoutes == All("manifest") \cup {<<"carrier", "create">>}
CheckRoutes    == All("check")

\* A submission, and the delete that it overtakes.
SubmitDeleteRoutes == {<<"manifest", "transition">>, <<"manifest", "delete">>}

\* What can get in each other's way across the kinds: a submission and the
\* withdrawal, editing or deletion of what it relies on, a check's decision and
\* its manifest's, a delete and whatever precedes it.
RaceRoutes ==
  {<<"generator", "delete">>, <<"carrier", "update">>, <<"carrier", "transition">>,
   <<"manifest", "transition">>, <<"manifest", "delete">>,
   <<"check", "transition">>, <<"check", "delete">>}
=============================================================================
