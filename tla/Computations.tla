---------------------------- MODULE Computations ----------------------------
(***************************************************************************)
(* One computation of Algorithms or of Queries, or compactions of the      *)
(* files by id.                                                            *)
(***************************************************************************)
EXTENDS Algorithms, Queries, ByIdParts

(* A build's files by id, or no input yet. *)
ComputationsInit ==
  /\ PartsInit
  /\ job \in {NoInput, [stage |-> "parts"]}
  /\ job = NoInput => table = NoParts

ComputationsNext ==
  \/ (Next \/ QueriesNext) /\ UNCHANGED partsVars
  \/ At("parts") /\ PartsNext /\ UNCHANGED job

ComputationsSpec == ComputationsInit /\ [][ComputationsNext]_<<job, partsVars>>
=============================================================================
