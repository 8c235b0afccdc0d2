----------------------------- MODULE MCDeltaTiers -----------------------------
(* Elements are interchangeable, and so are cells. *)
EXTENDS DeltaTiers, TLC

Symmetry == Permutations(Ids) \cup Permutations(Cells)
=============================================================================
