----------------------------- MODULE MCWorkbench ----------------------------
(* Instances of Workbench.  Slots are interchangeable. *)
EXTENDS Workbench, TLC

Symmetry == Permutations(Slots)
=============================================================================
