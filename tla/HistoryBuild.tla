----------------------------- MODULE HistoryBuild -----------------------------
(***************************************************************************)
(* osmpq history build as a function of its input: which versions the      *)
(* ingest keeps (history/ingest.py), the states and minor versions of      *)
(* nodes, ways and relations, their cells, valid_to and move tombstones    *)
(* (history/build.py).                                                     *)
(*                                                                         *)
(* An input gives, for every element and instant, what upstream did to it: *)
(* nothing, a deletion, or a new version: a node's place, a way's nodes or *)
(* a relation's members.  A version is named by its instant.  Places stand *)
(* for coordinates; a place inside the extent is also the leaf it lies in. *)
(* Members that are relations, for which the build reads the current       *)
(* boxes, are left out.                                                    *)
(***************************************************************************)
EXTENDS Elements, HistoryRows, FiniteSets

CONSTANTS
  Inside, Outside,  \* places in and out of the extent
  Root,             \* the cell that contains all the others
  Nearest,          \* the leaf a place outside every leaf is given
  Del,              \* in an input: a deletion (None: nothing happened)
  LastTime,         \* bound: instants are 1..LastTime
  Since             \* the instant of the base file

ASSUME BuildAssumption ==
  /\ LastTime \in Nat /\ Since \in Nat
  /\ Nodes \cap Ways = {} /\ Relations \cap (Nodes \cup Ways) = {}

Times == 1..LastTime

MinOf(S) == CHOOSE m \in S : \A k \in S : m <= k
MaxOf(S) == CHOOSE m \in S : \A k \in S : k <= m

-----------------------------------------------------------------------------
(* Ingest. *)

Events(h, i) == {t \in Times : h[i][t] # None}
IsLive(h, i, t) == h[i][t] # Del

(* The versions read: all of them from a full-history file; otherwise the  *)
(* base file's, the last one of an element that then exists, and those of  *)
(* the diffs after it.                                                     *)
Read(h, osh, i) ==
  LET before == {t \in Events(h, i) : t <= Since} IN
    {t \in Events(h, i) :
       osh \/ t > Since \/ (t = MaxOf(before) /\ IsLive(h, i, t))}

(* Node versions count from the first one inside the extent, way and       *)
(* relation versions from the first one with a member known by then.       *)
KnownNodes(h, osh, n) == {t \in Read(h, osh, n) : IsLive(h, n, t) /\ h[n][t] \in Inside}

KnownWays(h, osh, w) ==
  {t \in Read(h, osh, w) :
     IsLive(h, w, t) /\ \E n \in h[w][t] : \E u \in KnownNodes(h, osh, n) : u <= t}

KnownRelations(h, osh, r) ==
  {t \in Read(h, osh, r) :
     IsLive(h, r, t) /\ \E m \in h[r][t] :
        \E u \in IF m \in Nodes THEN KnownNodes(h, osh, m) ELSE KnownWays(h, osh, m) : u <= t}

Kept(h, osh, i) ==
  LET known == IF i \in Nodes THEN KnownNodes(h, osh, i)
               ELSE IF i \in Ways THEN KnownWays(h, osh, i) ELSE KnownRelations(h, osh, i)
  IN {t \in Read(h, osh, i) : known # {} /\ t >= MinOf(known)}

-----------------------------------------------------------------------------
(* States.  v is the set of versions kept of each element. *)

(* The last instant of a set that is not after t. *)
AsOf(S, t) == MaxOf({u \in S : u <= t})
HasAsOf(S, t) == \E u \in S : u <= t

(* Where node n is at t, if anywhere: the ASOF join. *)
PlacesAt(h, v, n, t) ==
  IF HasAsOf(v[n], t) /\ IsLive(h, n, AsOf(v[n], t)) THEN {<<n, h[n][AsOf(v[n], t)]>>} ELSE {}

(* Mutant: a version lasts until the end. *)
WindowOpen(v, i, own) == {t \in Times : t > own}

(* The instants strictly inside the window of version own of element i. *)
Window(v, i, own) == {t \in Times : t > own /\ ~ \E u \in v[i] : u > own /\ u <= t}

(* Minor versions of a way: versions of its nodes, of those that have      *)
(* several.                                                                *)
WayEvents(h, v, w, own) ==
  {t \in Window(v, w, own) : \E n \in h[w][own] : t \in v[n] /\ Cardinality(v[n]) > 1}

(* The geometry of a state that begins at t: the nodes there are then. *)
WayGeometry(h, v, w, own, t) ==
  IF IsLive(h, w, own) THEN UNION {PlacesAt(h, v, n, t) : n \in h[w][own]} ELSE {}

NodeStates(h, v, n) ==
  {[from |-> t, version |-> t, via |-> "own", box |-> PlacesAt(h, v, n, t)] : t \in v[n]}

(* The states of a way: when they begin, the version they belong to, what  *)
(* began them, the version itself or one of a node, and the geometry.      *)
WayStates(h, v, w) ==
  {[from |-> s[1], version |-> s[2], via |-> s[3], box |-> WayGeometry(h, v, w, s[2], s[1])] :
     s \in {x \in Times \X v[w] \X {"own", "node"} :
             IF x[3] = "own" THEN x[1] = x[2]
             ELSE IsLive(h, w, x[2]) /\ x[1] \in WayEvents(h, v, w, x[2])}}

(* Minor versions of a relation: versions of its nodes, of those that have *)
(* several, and states of its ways (ws).                                   *)
RelationEvents(h, v, ws, r, own, via) ==
  {t \in Window(v, r, own) : \E m \in h[r][own] :
     \/ via = "node" /\ m \in Nodes /\ t \in v[m] /\ Cardinality(v[m]) > 1
     \/ via = "way" /\ m \in Ways /\ \E s \in ws[m] : s.from = t}

(* The box of a member way is that of its state at t. *)
WayBoxAt(states, t) ==
  LET begun == {s \in states : s.from <= t} IN
    UNION {s.box : s \in {x \in begun : \A y \in begun : y.from <= x.from}}

RelationBox(h, v, ws, r, own, t) ==
  IF IsLive(h, r, own)
    THEN UNION {IF m \in Nodes THEN PlacesAt(h, v, m, t) ELSE WayBoxAt(ws[m], t) : m \in h[r][own]}
    ELSE {}

(* The two kinds of events are not merged: an instant of both begins two   *)
(* states.                                                                 *)
RelationStates(h, v, ws, r) ==
  {[from |-> s[1], version |-> s[2], via |-> s[3], box |-> RelationBox(h, v, ws, r, s[2], s[1])] :
     s \in {x \in Times \X v[r] \X {"own", "node", "way"} :
             IF x[3] = "own" THEN x[1] = x[2]
             ELSE IsLive(h, r, x[2]) /\ x[1] \in RelationEvents(h, v, ws, r, x[2], x[3])}}

-----------------------------------------------------------------------------
(* Rows, of the states of one element each. *)

NodeCell(p) == IF p \in Inside THEN p ELSE Nearest

Containing(box) ==
  IF \E c \in Inside : \A p \in box : p[2] = c THEN (CHOOSE p \in box : TRUE)[2] ELSE Root

OwnCell(i, s) ==
  IF i \in Nodes THEN NodeCell((CHOOSE p \in s.box : TRUE)[2]) ELSE Containing(s.box)

(* Mutant: minor versions lie where the version they belong to began. *)
CellFilledOwn(i, states, s) ==
  LET boxed == {x \in states : x.version <= s.version /\ x.box # {} /\ x.via = "own"} IN
    IF boxed = {} THEN Root
    ELSE OwnCell(i, CHOOSE x \in boxed : \A y \in boxed : y.from <= x.from)

(* A state without a box keeps the cell of the last state that had one. *)
CellFilled(i, states, s) ==
  LET boxed == {x \in states : x.from <= s.from /\ x.box # {}} IN
    IF boxed = {} THEN Root
    ELSE OwnCell(i, CHOOSE x \in boxed : \A y \in boxed : y.from <= x.from)

(* Minor versions are numbered in time order; two of one instant, whose    *)
(* boxes are the same, in an order the query leaves open.                  *)
Before(x, y) == x.from < y.from \/ (x.from = y.from /\ x.via = "node" /\ y.via = "way")

Row(h, i, states, s) ==
  [id |-> i, version |-> s.version,
   minor |-> Cardinality({x \in states : x.version = s.version /\ Before(x, s)}),
   from |-> s.from, live |-> IsLive(h, i, s.version), cell |-> CellFilled(i, states, s),
   box |-> s.box]

ByIdRows(h, states) == UNION {{Row(h, i, states[i], s) : s \in states[i]} : i \in Ids}

(* r comes after p in the order of the states of one element. *)
Later(r, p) == r.id = p.id /\ (r.from > p.from \/ (r.from = p.from /\ r.minor > p.minor))

(* _finalize_states: a visible state in another cell than the previous one *)
(* leaves an invisible row there.                                          *)
Moves(rows) ==
  LET Previous(r) == {p \in rows : Later(r, p) /\ ~ \E x \in rows : Later(x, p) /\ Later(r, x)}
  IN UNION {{[r EXCEPT !.live = FALSE, !.box = {}, !.cell = p.cell] :
               p \in {q \in Previous(r) : q.cell # r.cell}} : r \in {x \in rows : x.live}}

(* valid_to of a state is the start of the next state of its id, in        *)
(* whichever cell; move tombstones have none.                              *)
ValidStates(rows, t) ==
  {r \in rows : r.from <= t /\ ~ \E s \in rows : Later(s, r) /\ s.from <= t}

BuiltByIdAt(rows, t) == StateAt(ValidStates(rows, t))

BuiltScanAt(rows, cells, t) ==
  StateAt({r \in ValidStates(rows, t) \cup {m \in Moves(rows) : m.from <= t} : r.cell \in cells})

-----------------------------------------------------------------------------
(* Inputs, and what the rows built from one must answer. *)

LiveAt(f, t) ==
  \E u \in 1..t : f[u] \notin {None, Del} /\ \A x \in (u + 1)..t : f[x] = None

(* Upstream deletes only what exists. *)
Histories(values) ==
  {f \in [Times -> {None, Del} \cup values] : \A t \in Times : f[t] = Del => LiveAt(f, t - 1)}

IsInput(h) ==
  /\ \A n \in Nodes : h[n] \in Histories(Inside \cup Outside)
  /\ \A w \in Ways : h[w] \in Histories(SUBSET Nodes)
  /\ \A r \in Relations : h[r] \in Histories(SUBSET (Nodes \cup Ways))

(* From when on the history is complete. *)
SinceOf(osh) == IF osh THEN 1 ELSE Since

(* Where the nodes S are at t, but for those whose only known version is   *)
(* younger than the state that began at from.                              *)
ShownPlaces(h, v, S, from, t) ==
  UNION {PlacesAt(h, v, n, t) :
           n \in {x \in S : ~(Cardinality(v[x]) = 1 /\ \A u \in v[x] : u > from)}}

(* The rows built answer for every instant since the start of the history: *)
(* an element known by then has one state, the last version upstream made  *)
(* of it; a way's geometry, and a relation's box, is where its nodes and   *)
(* ways are at that instant, whichever of them moved last, but for nodes   *)
(* that never enter the event join (_compute_way_states,                   *)
(* _compute_relation_states).                                              *)
BuiltStatesAnswer(h, osh, v, rows) ==
  \A t \in SinceOf(osh)..LastTime :
    LET at == BuiltByIdAt(rows, t)
        Members(r) == h[r.id][r.version]
    IN /\ {r.id : r \in at} = {i \in Ids : HasAsOf(v[i], t)}
       /\ \A r \in at :
            /\ r.version = AsOf(Events(h, r.id), t)
            /\ \A s \in at : s.id = r.id => s = r
            /\ r.live => r.box =
                 CASE r.id \in Nodes -> PlacesAt(h, v, r.id, t)
                   [] r.id \in Ways -> ShownPlaces(h, v, Members(r), r.from, t)
                   [] r.id \in Relations ->
                        ShownPlaces(h, v, Members(r) \cap Nodes, r.from, t)
                        \cup UNION {w.box : w \in {x \in at : x.id \in Members(r) \cap Ways}}

(* A scan, at an instant, of the cells that can hold what has a place in   *)
(* leaf c finds every such element, in the state the by-id rows have, and  *)
(* none that is gone (_finalize_states).                                   *)
BuiltScansAgree(osh, rows) ==
  \A t \in SinceOf(osh)..LastTime, c \in Inside :
    LET Meeting(S) == {r \in S : r.live /\ \E p \in r.box : p[2] = c} IN
      Meeting(BuiltScanAt(rows, {c, Root}, t)) = Meeting(BuiltByIdAt(rows, t))
=============================================================================
