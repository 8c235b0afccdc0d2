--------------------------- MODULE MCDatasetRoot ---------------------------
(* Small instances of DatasetRoot. *)
EXTENDS DatasetRoot, TLC

Symmetry == Permutations(Updaters) \cup Permutations(Parts)
=============================================================================
