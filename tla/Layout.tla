-------------------------------- MODULE Layout --------------------------------
(***************************************************************************)
(* Where rows are stored and which files a read opens: quadtree cells      *)
(* (layout/cells.py, select_leaf_cells in build/common.py), the cells of a *)
(* bounding box (engine/catalog.py) and the Hilbert order of the rows      *)
(* (layout/hilbert.py, engine/hilbert.py).                                 *)
(*                                                                         *)
(* Coordinates are half steps of the finest grid: an odd coordinate is     *)
(* inside a cell of the grid, an even one on an edge.  A point is <<x, y>>,*)
(* a box [lo, hi] of its south-west and north-east corners, a cell key the *)
(* sequence of its digits; the root is << >>.                              *)
(***************************************************************************)
EXTENDS Naturals, Sequences, FiniteSets

CONSTANTS
  MaxDepth,        \* MAX_DEPTH of the grid
  CapDepth,        \* max_depth of the leaves and of loose placement
  AncestorDepths,  \* ancestor_depths
  MaxNodes         \* max_nodes_per_cell

ASSUME LayoutAssumption ==
  /\ MaxDepth \in Nat /\ CapDepth \in 0..MaxDepth /\ MaxNodes \in Nat
  /\ AncestorDepths \subseteq Nat /\ 0 \in AncestorDepths

(* 1 << n. *)
Pow2[n \in Nat] == IF n = 0 THEN 1 ELSE 2 * Pow2[n - 1]

Side == Pow2[MaxDepth]
Coords == 0..(2 * Side)

-----------------------------------------------------------------------------
(* Quadkeys. *)

(* _grid_xy: the eastern and northern edges of the world belong to the     *)
(* last cell.                                                              *)
Grid(c) == IF c \div 2 < Side THEN c \div 2 ELSE Side - 1

Bit(n, i) == (n \div Pow2[MaxDepth - i]) % 2

(* Digits count 0 = NW, 1 = NE, 2 = SW, 3 = SE. *)
Digit(p, i) == 2 * (1 - Bit(Grid(p[2]), i)) + Bit(Grid(p[1]), i)

Key(p, depth) == [i \in 1..depth |-> Digit(p, i)]

(* key_to_value. *)
KeyToValue(k) ==
  LET value[i \in 0..Len(k)] == IF i = 0 THEN 0 ELSE 4 * value[i - 1] + k[i] IN value[Len(k)]

PointToQk(p) == KeyToValue(Key(p, MaxDepth))

(* qk_range: the codes of the points of a cell are those from QkLow to QkHigh. *)
QkLow(k) == KeyToValue(k) * Pow2[2 * (MaxDepth - Len(k))]
QkHigh(k) == QkLow(k) + Pow2[2 * (MaxDepth - Len(k))] - 1

(* cell_bbox. *)
CellBox(k) ==
  LET size == (2 * Side) \div Pow2[Len(k)]
      low[i \in 0..Len(k)] ==
        IF i = 0 THEN <<0, 0>>
        ELSE <<2 * low[i - 1][1] + (k[i] % 2), 2 * low[i - 1][2] + 1 - (k[i] \div 2)>>
      c == low[Len(k)]
  IN [lo |-> <<c[1] * size, c[2] * size>>, hi |-> <<(c[1] + 1) * size, (c[2] + 1) * size>>]

Intersects(a, b) ==
  \A i \in 1..2 : a.lo[i] <= b.hi[i] /\ a.hi[i] >= b.lo[i]

-----------------------------------------------------------------------------
(* Leaves and placement. *)

Count(nodes, k) == Cardinality({p \in nodes : PointToQk(p) \in QkLow(k)..QkHigh(k)})

Keys == UNION {[1..d -> 0..3] : d \in 0..CapDepth}

(* select_leaf_cells: split while a cell has too many nodes; a cell without *)
(* nodes is no leaf.                                                       *)
SelectLeafCells(nodes) ==
  {k \in Keys :
     /\ \A d \in 0..(Len(k) - 1) : Count(nodes, SubSeq(k, 1, d)) > MaxNodes
     /\ Count(nodes, k) <= MaxNodes \/ Len(k) = CapDepth
     /\ Count(nodes, k) > 0 \/ k = << >>}

(* leaf_index_for_qk: the last leaf that begins at or before qk, or the    *)
(* first one, whether it covers qk or not.                                 *)
LeafForQk(leaves, qk) ==
  LET begun == {k \in leaves : QkLow(k) <= qk} IN
    IF begun = {} THEN CHOOSE k \in leaves : \A l \in leaves : QkLow(k) <= QkLow(l)
    ELSE CHOOSE k \in begun : \A l \in begun : QkLow(l) <= QkLow(k)

(* contains_qk. *)
ContainsQk(k, qk) == qk <= QkHigh(k)

(* point_cells_np. *)
PointCell(leaves, p) == LeafForQk(leaves, PointToQk(p))

(* The depth of the smallest cell that holds both corners. *)
CommonDepth(box) ==
  CHOOSE d \in 0..CapDepth :
    /\ Key(box.lo, d) = Key(box.hi, d)
    /\ d = CapDepth \/ Digit(box.lo, d + 1) # Digit(box.hi, d + 1)

Lower(m, n) == IF m < n THEN m ELSE n

(* The greatest allowed depth that is not below depth. *)
RoundedDepth(depth) == CHOOSE d \in AncestorDepths :
  d <= depth /\ \A e \in AncestorDepths : e <= depth => e <= d

(* containing_cells_v2_np: the smallest cell that holds the box, cut where *)
(* the leaves end; a cell that is not a leaf is rounded to an allowed      *)
(* depth.                                                                  *)
ContainingCell(leaves, box) ==
  LET qk == PointToQk(box.lo)
      leaf == LeafForQk(leaves, qk)
      depth == Lower(CommonDepth(box), Len(leaf))
      isLeaf == depth = Len(leaf) /\ ContainsQk(leaf, qk)
  IN Key(box.lo, IF isLeaf THEN depth ELSE RoundedDepth(depth))

-----------------------------------------------------------------------------
(* The cells of a bounding box. *)

LeavesIntersecting(leaves, box) == {k \in leaves : Intersects(box, CellBox(k))}

(* Mutant: the ancestors of a leaf are one level up. *)
WantedParents(leaves, table, box) ==
  UNION {{k, SubSeq(k, 1, Len(k) - 1)} : k \in LeavesIntersecting(leaves, box)}

Wanted(leaves, table, box) ==
  UNION {{SubSeq(k, 1, d) : d \in {e \in 0..Len(k) :
            \/ table = "node" \/ e = Len(k) \/ e \in AncestorDepths \cup {0}}} :
         k \in LeavesIntersecting(leaves, box)}

(* _cells_for_present: a cell only a delta tier has is tested itself. *)
CellsForPresent(leaves, table, box, present, base) ==
  {k \in present : \/ k \in Wanted(leaves, table, box)
                   \/ k \notin base /\ Intersects(box, CellBox(k))}

(* The box of a row group, from the statistics of its columns. *)
RowGroupBox(boxes) ==
  LET Least(S) == CHOOSE m \in S : \A k \in S : m <= k
      Most(S) == CHOOSE m \in S : \A k \in S : k <= m
  IN [lo |-> [i \in 1..2 |-> Least({b.lo[i] : b \in boxes})],
      hi |-> [i \in 1..2 |-> Most({b.hi[i] : b \in boxes})]]

(* prune_files_by_bbox: a file is read unless it has row groups and none   *)
(* of their boxes meets the query's.                                       *)
IsRead(rowgroups, box) == rowgroups = {} \/ \E g \in rowgroups : Intersects(RowGroupBox(g), box)

-----------------------------------------------------------------------------
(* The Hilbert index of a point of the grid of side 2^order. *)

(* Mutant: points are not flipped in the lower right quadrant. *)
RotateSwap(n, rx, ry, p) == IF ry = 1 THEN p ELSE <<p[2], p[1]>>

Rotate(n, rx, ry, p) ==
  IF ry = 1 THEN p
  ELSE IF rx = 1 THEN <<n - 1 - p[2], n - 1 - p[1]>> ELSE <<p[2], p[1]>>

(* hilbert_xy2d and xy2d: one quadrant for each power s = 2^k of two. *)
HilbertXY2D(order, x, y) ==
  LET n == Pow2[order]
      xor(rx, ry) == IF rx = 0 THEN ry ELSE 3 - ry
      step[k \in 0..order] ==
        IF k = order THEN [d |-> 0, p |-> <<x, y>>]
        ELSE LET before == step[k + 1]
                 rx == (before.p[1] \div Pow2[k]) % 2
                 ry == (before.p[2] \div Pow2[k]) % 2
             IN [d |-> before.d + Pow2[2 * k] * xor(rx, ry), p |-> Rotate(n, rx, ry, before.p)]
  IN step[0].d

-----------------------------------------------------------------------------
(* What placement and reads must agree on. *)

Points == Coords \X Coords
PointBox(p) == [lo |-> p, hi |-> p]

Spanned(p, q) ==
  [lo |-> <<Lower(p[1], q[1]), Lower(p[2], q[2])>>,
   hi |-> <<p[1] + q[1] - Lower(p[1], q[1]), p[2] + q[2] - Lower(p[2], q[2])>>]

PointsOf(box) == (box.lo[1]..box.hi[1]) \X (box.lo[2]..box.hi[2])

IsCovered(leaves, p) == \E k \in leaves : PointToQk(p) \in QkLow(k)..QkHigh(k)

(* A dataset built from nodes: where its nodes are, the ways between two   *)
(* of them and where those are.                                            *)
NodeCells(leaves, nodes) == {PointCell(leaves, p) : p \in nodes}
WayBoxes(nodes) == {Spanned(p, q) : p, q \in nodes}
WayCells(leaves, nodes) == {ContainingCell(leaves, b) : b \in WayBoxes(nodes)}

(* A query finds what the build stored: a node and a way are in a cell     *)
(* that is read, and their file is not pruned, whenever the query's box    *)
(* meets theirs at a point some leaf covers (select_leaf_cells,            *)
(* containing_cells_v2_np, _cells_for_present, prune_files_by_bbox).       *)
CoveredIsRead(nodes, leaves, box) ==
  LET base == WayCells(leaves, nodes)
      k == ContainingCell(leaves, box)
      file == {b \in WayBoxes(nodes) : ContainingCell(leaves, b) = k}
  IN \A r \in {x \in PointsOf(box) : IsCovered(leaves, x)} :
       /\ k \in CellsForPresent(leaves, "way", PointBox(r), base \cup {k}, base)
       /\ IsRead({file \cup {box}}, PointBox(r))
       /\ r \in nodes =>
            PointCell(leaves, r) \in CellsForPresent(leaves, "node", PointBox(r),
                                                     NodeCells(leaves, nodes), NodeCells(leaves, nodes))

(* A way an update put in a cell that the base has no file for is found by *)
(* every query its box meets, also where no leaf is (_cells_for_present).  *)
DeltaOnlyIsRead(nodes, leaves, box) ==
  LET base == WayCells(leaves, nodes)
      k == ContainingCell(leaves, box)
  IN k \notin base =>
       \A r \in PointsOf(box) :
         k \in CellsForPresent(leaves, "way", PointBox(r), base \cup {k}, base)

(* LeafIndex and cells_for_bbox take the leaves to tile the world: a node  *)
(* an update adds is in a cell that a query of its place reads.            *)
NodesAreRead(nodes, leaves, p) ==
  LET base == NodeCells(leaves, nodes)
      k == PointCell(leaves, p)
  IN k \in CellsForPresent(leaves, "node", PointBox(p), base \cup {k}, base)

(* Rows sorted by Hilbert index lie along a curve: every point of the grid *)
(* has an index of its own and the next index is a neighbour's.            *)
HilbertIsACurve(order) ==
  LET n == Pow2[order]
      grid == (0..(n - 1)) \X (0..(n - 1))
      index == [p \in grid |-> HilbertXY2D(order, p[1], p[2])]
      Far(a, b) == IF a < b THEN b - a ELSE a - b
  IN /\ {index[p] : p \in grid} = 0..(n * n - 1)
     /\ \A p, q \in grid : index[q] = index[p] + 1 => Far(p[1], q[1]) + Far(p[2], q[2]) = 1

=============================================================================
