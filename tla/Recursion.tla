------------------------------- MODULE Recursion -------------------------------
(***************************************************************************)
(* The recursion operators > < >> << and the recursion filters             *)
(* (engine/recurse.py), with the ways their ids become rows again          *)
(* (engine/sources.py).                                                    *)
(*                                                                         *)
(* A row is an element, its version and its kids: the nodes of a way, the  *)
(* members of a relation.  A node has no kids, and its version also stands *)
(* for its place.  The data d are the rows of two instants, "then" and     *)
(* "now": the base files, and with them the node_way and member indexes,   *)
(* are of "then", the delta tiers hold what has changed.  Queries read the *)
(* present ("now"), or a snapshot of the history ("then", "last").         *)
(***************************************************************************)
EXTENDS Elements, Naturals, FiniteSets

Snapshots == {"now", "then", "last"}
Table(d, s) == IF s = "then" THEN d.then ELSE d.now
IsSnapshot(s) == s # "now"

IdsOf(rows) == {r.id : r \in rows}
RowsOf(d, s) == {[id |-> i, v |-> Table(d, s)[i].v, kids |-> Table(d, s)[i].kids] :
                   i \in {j \in Ids : Table(d, s)[j] # None}}

(* The tables the program can meet: nodes have no kids, ways have nodes. *)
IsTable(t) ==
  /\ DOMAIN t = Ids
  /\ \A i \in Ids : t[i] # None =>
       /\ t[i] = [v |-> t[i].v, kids |-> t[i].kids]
       /\ t[i].kids \subseteq Ids
       /\ i \in Nodes => t[i].kids = {}
       /\ i \in Ways => t[i].kids \subseteq Nodes

-----------------------------------------------------------------------------
(* Ids to rows.  A version stands for the cell of its row, too.            *)

ById(d, s, ids) == {r \in RowsOf(d, s) : r.id \in ids}

(* A box is the places of its nodes. *)
Places(rows) == {r.v : r \in {q \in rows : q.id \in Nodes}}
WayBox(d, s, w) == Places(ById(d, s, Table(d, s)[w].kids))
Boxes(d, s, rows) ==
  LET ways == {i \in Ways : \E r \in rows : i \in r.kids \cup {r.id}} IN
    Places(ById(d, s, UNION {r.kids : r \in rows}))
      \cup UNION {WayBox(d, s, w) : w \in IdsOf(ById(d, s, ways))}

(* What the cells read do not hold comes from the by-id files. *)
WithRest(d, s, near, ids) == near \cup ById(d, s, ids \ IdsOf(near))

(* Ways from the cells that meet a box, none when these are more than half *)
(* of all cells (wide); nodes likewise.                                    *)
HydrateWays(d, s, wide, ids, box) ==
  WithRest(d, s, {r \in ById(d, s, ids) : ~wide /\ WayBox(d, s, r.id) \cap box # {}}, ids)

HydrateNodes(d, s, wide, ids, box) ==
  WithRest(d, s, {r \in ById(d, s, ids) : ~wide /\ r.v \in box}, ids)

(* Ways and relations from the cells that are known for them: that of the  *)
(* history row, or that of the base in the member index, which an update   *)
(* may have made stale (a row found in a delta tier comes by id here).     *)
KnownCells(d, s, ids) == {r.v : r \in ById(d, IF IsSnapshot(s) THEN s ELSE "then", ids)}

HydrateInCells(d, s, ids) ==
  WithRest(d, s, {r \in ById(d, s, ids) : r.v \in KnownCells(d, s, ids)}, ids)

(* hydrate_ids_table. *)
Hydrate(d, s, ids) == ById(d, s, ids \cap Nodes) \cup HydrateInCells(d, s, ids \ Nodes)

-----------------------------------------------------------------------------
(* forward_new_ids_table: the kids in the rows themselves. *)
ForwardHop(rows, types) ==
  (UNION {r.kids : r \in {q \in rows : q.id \in Ways}})
    \cup ((UNION {r.kids : r \in {q \in rows : q.id \in Relations}}) \cap types)

(* build_forward_one_hop: member ways are hydrated for their nodes. *)
Forward(d, s, wide, rows) ==
  LET hop == ForwardHop(rows, Nodes \cup Ways)
      relations == {r \in rows : r.id \in Relations}
      wayRows == HydrateWays(d, s, wide, hop \cap Ways, Boxes(d, s, relations))
  IN wayRows \cup HydrateNodes(d, s, wide, (hop \cap Nodes) \cup ForwardHop(wayRows, {}),
                              Boxes(d, s, rows \cup wayRows))

-----------------------------------------------------------------------------
(* Elements with a row in the delta tiers. *)
InDelta(d) == {i \in Ids : d.now[i] # d.then[i]}

Parents(table, kinds, ids) == {i \in kinds : table[i] # None /\ table[i].kids \cap ids # {}}

(* Nodes to ways: the ways of the cells around the nodes' places.  When    *)
(* these are more than half of all cells (wide), the index and the delta   *)
(* rows, or under a snapshot nothing.                                      *)
ParentWays(d, s, wide, rows) ==
  LET ids == IdsOf(rows) \cap Nodes IN
    IF ~wide THEN {w \in Parents(Table(d, s), Ways, ids) : WayBox(d, s, w) \cap Places(rows) # {}}
    ELSE IF IsSnapshot(s) THEN {}
    ELSE Parents(d.then, Ways, ids) \cup Parents(d.now, Ways \cap InDelta(d), ids)

(* Mutant: relations of the delta tiers are not looked at. *)
ParentRelationsBase(d, s, ids) ==
  IF IsSnapshot(s) THEN Parents(Table(d, s), Relations, ids) ELSE Parents(d.then, Relations, ids)

(* Members to relations: the relation history under a snapshot, else the   *)
(* member index of the base and the delta rows.                            *)
ParentRelations(d, s, ids) ==
  IF IsSnapshot(s) THEN Parents(Table(d, s), Relations, ids)
  ELSE Parents(d.then, Relations, ids) \cup Parents(d.now, Relations \cap InDelta(d), ids)

(* backward_new_ids_table over the rows of some types. *)
BackwardHop(d, s, wide, rows, types) ==
  LET from == {r \in rows : r.id \in types} IN
    ParentWays(d, s, wide, from) \cup ParentRelations(d, s, IdsOf(from))

(* build_backward_one_hop: also the relations of the ways found. *)
Backward(d, s, wide, rows) ==
  LET hop == BackwardHop(d, s, wide, rows, Ids) IN
    Hydrate(d, s, hop \cup ParentRelations(d, s, hop \cap Ways))

-----------------------------------------------------------------------------
Hop(d, s, wide, down, rows) ==
  IF down THEN ForwardHop(rows, Ids) ELSE BackwardHop(d, s, wide, rows, Ids)

(* The rows of new ids, near the rows they were reached from. *)
HopRows(d, s, wide, down, rows, new) ==
  IF ~down THEN Hydrate(d, s, new)
  ELSE HydrateWays(d, s, wide, new \cap Ways, Boxes(d, s, rows))
       \cup HydrateNodes(d, s, wide, new \cap Nodes, Boxes(d, s, rows))
       \cup Hydrate(d, s, new \cap Relations)

(* The loop of recurse_transitive: hop from the rows found last to ids not *)
(* seen before, until there are none.                                      *)
FirstRound(d, s, wide, down, rows, seen) ==
  [last |-> rows, seen |-> seen, new |-> Hop(d, s, wide, down, rows) \ seen, found |-> {}]

NextRound(d, s, wide, down, b) ==
  LET last == HopRows(d, s, wide, down, b.last, b.new)
      seen == b.seen \cup b.new
  IN [last |-> last, seen |-> seen, new |-> Hop(d, s, wide, down, last) \ seen,
      found |-> b.found \cup last]

Discovered(d, s, wide, down, rows, seen) ==
  LET round[k \in 0..Cardinality(Ids)] ==
        IF k = 0 THEN FirstRound(d, s, wide, down, rows, seen)
        ELSE NextRound(d, s, wide, down, round[k - 1])
  IN round[CHOOSE k \in 0..Cardinality(Ids) : round[k].new = {}].found

(* Mutant: the input is not seen yet. *)
TransitiveUnseen(d, s, wide, down, rows) ==
  Discovered(d, s, wide, down, rows, {})
    \cup IF down THEN {r \in rows : r.id \in Relations} ELSE {}

(* recurse_transitive: >> keeps the relations of its input. *)
Transitive(d, s, wide, down, rows) ==
  Discovered(d, s, wide, down, rows, IdsOf(rows))
    \cup IF down THEN {r \in rows : r.id \in Relations} ELSE {}

-----------------------------------------------------------------------------
(* What the operators mean. *)

(* What can be reached from some ids, step by step. *)
Reachable(from, step) ==
  CHOOSE C \in SUBSET Ids :
    /\ \A i \in from \cup C : step[i] \subseteq C
    /\ \A D \in SUBSET C : D # C => \E i \in from \cup D : ~(step[i] \subseteq D)

(* >> ends, membership cycles or not, with everything below the input that *)
(* exists, without the input's own nodes and ways, once each.              *)
DownIsReachability(d, s, wide) ==
  \A rows \in SUBSET RowsOf(d, s) :
    LET kids == [i \in Ids |-> IF Table(d, s)[i] = None THEN {} ELSE Table(d, s)[i].kids]
        below == Reachable(IdsOf(rows), kids)
        found == Transitive(d, s, wide, TRUE, rows)
    IN found = ById(d, s, (below \ IdsOf(rows)) \cup (IdsOf(rows) \cap Relations))

(* < and << miss no parent: every way and relation of the instant that has *)
(* an input element as a kid is found, whether the base files, the indexes *)
(* or only the delta tiers know it; << also finds their parents.  Under a  *)
(* snapshot a wide input is given up.                                      *)
ParentsAreFound(d, s, wide) ==
  ~(wide /\ IsSnapshot(s)) =>
    \A rows \in SUBSET RowsOf(d, s) :
      LET up == [i \in Ids |-> Parents(Table(d, s), Ways \cup Relations, {i})]
      IN /\ UNION {up[i] : i \in IdsOf(rows)} \subseteq IdsOf(Backward(d, s, wide, rows))
         /\ Reachable(IdsOf(rows), up) \ IdsOf(rows)
              \subseteq IdsOf(Transitive(d, s, wide, FALSE, rows))

(* < returns parents: every relation it finds has an element of the input, *)
(* or a way that has one, as a member.                                     *)
OnlyParentsAreFound(d, s, wide) ==
  \A rows \in SUBSET RowsOf(d, s) :
    LET found == Backward(d, s, wide, rows)
        ways == {r \in found : r.id \in Ways}
    IN \A r \in found :
         r.kids \cap (IdsOf(rows) \cup IF r.id \in Relations THEN IdsOf(ways) ELSE {}) # {}
=============================================================================
