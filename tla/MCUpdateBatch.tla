---------------------------- MODULE MCUpdateBatch ----------------------------
(* Two nodes, a way and two relations, one of which may hold the other. *)
EXTENDS UpdateBatch, TLC

CONSTANTS in, out   \* a place inside a regional extent and one outside

TwoRefSets == {{1}, {1, 2}}

ThreeMemberSets ==
  {{[type |-> "n", ref |-> 2]}, {[type |-> "w", ref |-> 1]}, {[type |-> "r", ref |-> 1]}}

First(body) == [ver |-> 1, body |-> body]

(* Two nodes apart, a way on one of them, the relation that holds the way  *)
(* and the one that holds this relation.                                   *)
Chain ==
  [n |-> (1 :> First(in) @@ 2 :> First(out)),
   w |-> (1 :> First({1})),
   r |-> (1 :> First({[type |-> "w", ref |-> 1]}) @@ 2 :> First({[type |-> "r", ref |-> 1]}))]

FromChain == {Chain}
FromNothing == {Empty}
=============================================================================
