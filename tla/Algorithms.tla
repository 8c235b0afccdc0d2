------------------------------ MODULE Algorithms ------------------------------
(***************************************************************************)
(* The pure algorithms of the program on every input of a bounded set: a   *)
(* step takes an input or computes the next stage from the last, and the   *)
(* invariants say what the result means for the input.                     *)
(***************************************************************************)
EXTENDS HistoryBuild, Layout, Recursion, Job

CONSTANTS
  BuildInputs,   \* histories given to history build
  LayoutInputs,  \* sets of nodes to select leaves for
  Corners,       \* corners of the boxes to place
  Datas          \* rows of the base and of now to recurse through

ASSUME AlgorithmsAssumption ==
  /\ IsFiniteSet(Ids)
  /\ \A h \in BuildInputs : IsInput(h)
  /\ \A nodes \in LayoutInputs : IsFiniteSet(nodes) /\ nodes \subseteq Points
  /\ Corners \subseteq Points
  /\ \A d \in Datas : IsTable(d.then) /\ IsTable(d.now)

Init == job = NoInput

-----------------------------------------------------------------------------
(* history_build: ingest, the states of nodes and ways, those of relations,*)
(* the rows.                                                               *)

Ingest ==
  /\ job = NoInput
  /\ \E h \in BuildInputs, osh \in BOOLEAN :
       job' = [stage |-> "ingested", h |-> h, osh |-> osh, v |-> [i \in Ids |-> Kept(h, osh, i)]]

BuildWays ==
  /\ At("ingested")
  /\ job' = [stage |-> "ways", h |-> job.h, osh |-> job.osh, v |-> job.v,
             states |-> [i \in Nodes \cup Ways |->
                           IF i \in Nodes THEN NodeStates(job.h, job.v, i)
                                          ELSE WayStates(job.h, job.v, i)]]

BuildRelations ==
  /\ At("ways")
  /\ job' = [job EXCEPT !.stage = "relations",
                        !.states = [i \in Ids |-> IF i \in Relations
                                                    THEN RelationStates(job.h, job.v, job.states, i)
                                                    ELSE job.states[i]]]

BuildRows ==
  /\ At("relations")
  /\ job' = [stage |-> "built", h |-> job.h, osh |-> job.osh, v |-> job.v,
             rows |-> ByIdRows(job.h, job.states)]

(* The rows history build has written give, for every instant since the   *)
(* start of the history, the one state each known element then had, with   *)
(* the geometry its members then gave it (_compute_way_states,             *)
(* _compute_relation_states).                                              *)
BuildAnswers == At("built") => BuiltStatesAnswer(job.h, job.osh, job.v, job.rows)

(* Scans of the cells built find at every instant what the by-id rows say  *)
(* lies there (_finalize_states' move tombstones and valid_to).            *)
BuildScansAgree == At("built") => BuiltScansAgree(job.osh, job.rows)

-----------------------------------------------------------------------------
(* The leaves of a set of nodes, a way placed among them. *)

SelectLeaves ==
  /\ job = NoInput
  /\ \E nodes \in LayoutInputs :
       job' = [stage |-> "leaves", nodes |-> nodes, leaves |-> SelectLeafCells(nodes)]

Place ==
  /\ At("leaves")
  /\ \E p, q \in Corners :
       job' = [stage |-> "placed", nodes |-> job.nodes, leaves |-> job.leaves, box |-> Spanned(p, q)]

(* A bounding box query opens the cell file and the row group of every way *)
(* and node the build has placed where the leaves cover the box, and a     *)
(* cell that only a delta tier has, wherever an update put the way         *)
(* (containing_cells_v2_np against _cells_for_present).                    *)
ReadsFindRows ==
  At("placed") => /\ CoveredIsRead(job.nodes, job.leaves, job.box)
                  /\ DeltaOnlyIsRead(job.nodes, job.leaves, job.box)

(* It opens the cell of a node an update placed anywhere in the world      *)
(* (the comment of LeafIndex: the leaves partition it).                    *)
ReadsFindNodes == At("placed") => NodesAreRead(job.nodes, job.leaves, job.box.lo)

-----------------------------------------------------------------------------
(* The order of a Hilbert curve. *)

TakeOrder ==
  /\ job = NoInput
  /\ \E order \in 1..4 : job' = [stage |-> "order", order |-> order]

(* The Hilbert key orders the grid as one curve of neighbouring points     *)
(* (hilbert_xy2d).                                                         *)
HilbertKeysAreACurve == At("order") => HilbertIsACurve(job.order)

-----------------------------------------------------------------------------
(* Recursion through every data. *)

TakeData ==
  /\ job = NoInput
  /\ \E d \in Datas, wide \in BOOLEAN, s \in Snapshots :
       job' = [stage |-> "data", data |-> d, wide |-> wide, snap |-> s]

(* >> ends and finds everything below its input, membership cycles or not  *)
(* (recurse_transitive).                                                   *)
RecursionReachesAll == At("data") => DownIsReachability(job.data, job.snap, job.wide)

(* < and << find every parent, also one only a delta tier or only the base *)
(* knows (backward_new_ids_table).                                         *)
RecursionFindsParents == At("data") => ParentsAreFound(job.data, job.snap, job.wide)

(* < finds nothing else: each relation found has the input or a way of the *)
(* input as a member (build_backward_one_hop).                             *)
RecursionFindsOnlyParents == At("data") => OnlyParentsAreFound(job.data, job.snap, job.wide)

-----------------------------------------------------------------------------
Next ==
  \/ Ingest \/ BuildWays \/ BuildRelations \/ BuildRows
  \/ SelectLeaves \/ Place \/ TakeOrder
  \/ TakeData

Spec == Init /\ [][Next]_job
=============================================================================
