------------------------ MODULE MCUpdaterScheduler ------------------------
(* Small instances of UpdaterScheduler. *)
EXTENDS UpdaterScheduler, TLC

Symmetry == Permutations(Slots) \cup Permutations(Admins)
=============================================================================
