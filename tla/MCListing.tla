----------------------------- MODULE MCListing ------------------------------
(* Instances of Listing.  The rows are interchangeable. *)
EXTENDS Listing, TLC

Symmetry == Permutations(Rows)
=============================================================================
