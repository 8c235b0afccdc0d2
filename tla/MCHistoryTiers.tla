---------------------------- MODULE MCHistoryTiers ----------------------------
(* A node that moves, a way through it, and a relation of the way and of a *)
(* node that stays.                                                        *)
EXTENDS AtticReads, TLC

CONSTANTS n1, n2, w1, r1

MCRefs == (w1 :> {n1}) @@ (r1 :> {w1, n2})
=============================================================================
