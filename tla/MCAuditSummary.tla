--------------------------- MODULE MCAuditSummary ---------------------------
(* Instances of AuditSummary.  Actors and kinds are interchangeable. *)
EXTENDS AuditSummary, TLC

Symmetry == Permutations(Actors) \cup Permutations(Kinds)
=============================================================================
