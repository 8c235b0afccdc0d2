----------------------------- MODULE UpdateBatch -----------------------------
(***************************************************************************)
(* What one updater run does with a batch of diffs: the version check, the *)
(* extent filter, the touched set through the reverse indexes and the      *)
(* bounding boxes it resolves again (update/updater.py), on a root built   *)
(* from an extract (build/raw.py, build/builder.py) and compacted          *)
(* now and then (the reverse indexes of build/compact.py).                 *)
(*                                                                         *)
(* Ids of nodes, ways and relations overlap, as in the database.  A row is *)
(* a version and a body: a node's place, the set of a way's refs, the set  *)
(* of a relation's members.  A bounding box is the set of places it is the *)
(* hull of, {} for NULL.  A diff is one change: diffs of several changes   *)
(* are fetched together.  The tiers are one delta layer, which DeltaTiers  *)
(* shows they are for reads by id, and a run is one step (DatasetRoot).    *)
(***************************************************************************)
EXTENDS Integers, Sequences

CONSTANTS
  Nodes, Ways, Relations,  \* ids of each type
  Places,                  \* coordinates
  Extent,                  \* those inside the root's extent
  RefSets,                 \* refs a way may have
  MemberSets,              \* members a relation may have
  None,                    \* no row, or a deletion
  Starts,                  \* upstream data before the first diff
  HasNodeWay,              \* the node_way index was built, and never becomes empty
  Rounds,                  \* 8: rounds of the search for parent relations
  MaxDiffs,                \* --max-diffs
  MaxLag,                  \* bound: diffs published and not applied
  MaxChanges               \* bound: diffs altogether

Member == [type : {"n"}, ref : Nodes] \cup [type : {"w"}, ref : Ways]
            \cup [type : {"r"}, ref : Relations]

Row(bodies) == [ver : Nat, body : bodies \cup {None}]
Data == [n : [Nodes -> Row(Places)], w : [Ways -> Row(RefSets)], r : [Relations -> Row(MemberSets)]]

ASSUME BatchAssumption ==
  /\ Extent \subseteq Places
  /\ RefSets \subseteq SUBSET Nodes
  /\ MemberSets \subseteq SUBSET Member
  /\ None \notin Places /\ None \notin RefSets /\ None \notin MemberSets
  /\ Starts \subseteq Data
  /\ HasNodeWay \in BOOLEAN
  /\ Rounds \in Nat \ {0} /\ MaxDiffs \in Nat /\ MaxLag \in Nat /\ MaxChanges \in Nat

VARIABLES
  up,        \* the OpenStreetMap database
  changes,   \* diffs it has published
  log,       \* the diffs after the root's replication_sequence
  built,     \* the root exists
  root,      \* its current rows: delta layer over base, deleted ones absent
  box,       \* bounding boxes of its ways and relations
  delta,     \* ids in the delta layer
  baseRefs,  \* refs in the base way table
  nodeWay,   \* base index node_way: pairs <<node, way>>
  member     \* base index member: pairs <<member id, relation>>, any type

vars == <<up, changes, log, built, root, box, delta, baseRefs, nodeWay, member>>

Absent == [ver |-> 0, body |-> None]
IsAlive(row) == row.body # None
Known == [n |-> {i \in Nodes : IsAlive(root.n[i])},
          w |-> {i \in Ways : IsAlive(root.w[i])},
          r |-> {i \in Relations : IsAlive(root.r[i])}]

Change == [type : {"n"}, id : Nodes, row : Row(Places)]
            \cup [type : {"w"}, id : Ways, row : Row(RefSets)]
            \cup [type : {"r"}, id : Relations, row : Row(MemberSets)]

TypeOK ==
  /\ up \in Data
  /\ changes \in Nat
  /\ log \in Seq(Change)
  /\ built \in BOOLEAN
  /\ root \in Data
  /\ box \in [w : [Ways -> SUBSET Places], r : [Relations -> SUBSET Places]]
  /\ delta \in [n : SUBSET Nodes, w : SUBSET Ways, r : SUBSET Relations]
  /\ baseRefs \in [Ways -> SUBSET Nodes]
  /\ nodeWay \subseteq Nodes \X Ways
  /\ member \subseteq (Nodes \cup Ways \cup Relations) \X Relations

Empty == [n |-> [i \in Nodes |-> Absent], w |-> [i \in Ways |-> Absent],
          r |-> [i \in Relations |-> Absent]]
NoDelta == [n |-> {}, w |-> {}, r |-> {}]

Init ==
  /\ up \in Starts
  /\ changes = 0
  /\ log = <<>>
  /\ built = FALSE
  /\ root = Empty
  /\ box = [w |-> [i \in Ways |-> {}], r |-> [i \in Relations |-> {}]]
  /\ delta = NoDelta
  /\ baseRefs = [i \in Ways |-> {}]
  /\ nodeWay = {}
  /\ member = {}

-----------------------------------------------------------------------------
(* Bounding boxes, from rows d. *)

RefsOf(d, w) == IF IsAlive(d.w[w]) THEN d.w[w].body ELSE {}
MembersOf(d, r) == IF IsAlive(d.r[r]) THEN d.r[r].body ELSE {}

(* The refs without a known node contribute nothing. *)
WayBox(d, w) == {d.n[i].body : i \in RefsOf(d, w)} \ {None}

(* First pass: member nodes and member ways. *)
Box0(d, ways, r) ==
  UNION {CASE m.type = "n" -> {d.n[m.ref].body} \ {None}
           [] m.type = "w" -> ways[m.ref]
           [] m.type = "r" -> {} : m \in MembersOf(d, r)}

MemberRelations(d, r) == {m.ref : m \in {x \in MembersOf(d, r) : x.type = "r"}}

(* Second pass: the boxes that lookup gives for the member relations. *)
Box1(d, ways, lookup, r) ==
  Box0(d, ways, r) \cup UNION {lookup[i] : i \in MemberRelations(d, r)}

(* The builder's boxes. *)
WayBoxes(d) == [w \in Ways |-> WayBox(d, w)]
RelationBoxes(d) ==
  LET box0 == [r \in Relations |-> Box0(d, WayBoxes(d), r)]
  IN  [r \in Relations |-> Box1(d, WayBoxes(d), box0, r)]

Pairs(refs) == {p \in Nodes \X Ways : p[1] \in refs[p[2]]}
MemberPairs(d) == {p \in (Nodes \cup Ways \cup Relations) \X Relations :
                     \E m \in MembersOf(d, p[2]) : m.ref = p[1]}

-----------------------------------------------------------------------------
(* Upstream: an element is created, changed or deleted.  The database lets *)
(* an element refer only to what exists, and keeps what is referred to.    *)
IsUsed(t, i) ==
  \/ t = "n" /\ \E w \in Ways : i \in RefsOf(up, w)
  \/ \E r \in Relations : [type |-> t, ref |-> i] \in MembersOf(up, r)

RefsExist(t, body) ==
  CASE t = "n" -> TRUE
    [] t = "w" -> \A i \in body : IsAlive(up.n[i])
    [] t = "r" -> \A m \in body : IsAlive(up[m.type][m.ref])

Publish(t, i, body) ==
  LET row == [ver |-> up[t][i].ver + 1, body |-> body]
  IN  /\ Len(log) < MaxLag
      /\ changes < MaxChanges
      /\ body # up[t][i].body
      /\ IF body = None THEN ~IsUsed(t, i) ELSE RefsExist(t, body)
      /\ changes' = changes + 1
      /\ up' = [up EXCEPT ![t][i] = row]
      /\ log' = Append(log, [type |-> t, id |-> i, row |-> row])
      /\ UNCHANGED <<built, root, box, delta, baseRefs, nodeWay, member>>

PublishSome ==
  \/ \E i \in Nodes, b \in Places \cup {None} : Publish("n", i, b)
  \/ \E i \in Ways, b \in RefSets \cup {None} : Publish("w", i, b)
  \/ \E i \in Relations, b \in MemberSets \cup {None} : Publish("r", i, b)

(* The extract a regional root is built from: nodes inside, ways with such *)
(* a node and all their nodes, relations with a member among these or any  *)
(* member relation.  A planet root is built from everything.               *)
Inside == {i \in Nodes : up.n[i].body \in Extent}
ExtractWays == {w \in Ways : RefsOf(up, w) \cap Inside # {} \/ Extent = Places}
ExtractNodes == {i \in Nodes : i \in Inside \/ \E w \in ExtractWays : i \in RefsOf(up, w)}
ExtractRelations ==
  {r \in Relations : Extent = Places \/
     \E m \in MembersOf(up, r) : \/ m.type = "n" /\ m.ref \in ExtractNodes
                                 \/ m.type = "w" /\ m.ref \in ExtractWays
                                 \/ m.type = "r" /\ IsAlive(up.r[m.ref])}

Stored(row) == IF IsAlive(row) THEN row ELSE Absent
Extract ==
  [n |-> [i \in Nodes |-> IF i \in ExtractNodes THEN Stored(up.n[i]) ELSE Absent],
   w |-> [i \in Ways |-> IF i \in ExtractWays THEN Stored(up.w[i]) ELSE Absent],
   r |-> [i \in Relations |-> IF i \in ExtractRelations THEN Stored(up.r[i]) ELSE Absent]]

(* Building the root; the replication sequence it is given may lie before  *)
(* the extract.                                                            *)
Build ==
  /\ ~built
  /\ built' = TRUE
  /\ root' = Extract
  /\ box' = [w |-> WayBoxes(Extract), r |-> RelationBoxes(Extract)]
  /\ baseRefs' = [w \in Ways |-> RefsOf(Extract, w)]
  /\ nodeWay' = IF HasNodeWay THEN Pairs([w \in Ways |-> RefsOf(Extract, w)]) ELSE {}
  /\ member' = MemberPairs(Extract)
  /\ \E s \in 0..Len(log) : log' = SubSeq(log, s + 1, Len(log))
  /\ UNCHANGED <<up, changes, delta>>

-----------------------------------------------------------------------------
(* A run over the first k diffs.  b is its batch: for each type the rows   *)
(* that the diffs bring.                                                   *)

(* Mutant: the first occurrence wins. *)
FinalFirst(k) ==
  {j \in 1..k : \A l \in 1..(j - 1) : log[l].type # log[j].type \/ log[l].id # log[j].id}

(* parse_batch keeps the last occurrence of an element. *)
Final(k) ==
  {j \in 1..k : \A l \in (j + 1)..k : log[l].type # log[j].type \/ log[l].id # log[j].id}

InDiffs(k, t) == {log[j].id : j \in {x \in Final(k) : log[x].type = t}}
Last(k, t, i) == log[CHOOSE j \in Final(k) : log[j].type = t /\ log[j].id = i].row

(* The version check: a row that is not newer is dropped. *)
Fresh(k, t) == {i \in InDiffs(k, t) : Last(k, t, i).ver > root[t][i].ver}

Batch(k) ==
  [n |-> [i \in Fresh(k, "n") |-> Last(k, "n", i)],
   w |-> [i \in Fresh(k, "w") |-> Last(k, "w", i)],
   r |-> [i \in Fresh(k, "r") |-> Last(k, "r", i)]]

(* The extent filter. *)
KeptNodes(b) == {i \in DOMAIN b.n : i \in Known.n \/ b.n[i].body \in Extent}

KeptWays(b) ==
  {i \in DOMAIN b.w : \/ i \in Known.w
                      \/ IsAlive(b.w[i]) /\ b.w[i].body \cap (Known.n \cup KeptNodes(b)) # {}}

(* Members are looked up in the root as it was before the batch. *)
KeptRelations(b) ==
  {i \in DOMAIN b.r : \/ i \in Known.r
                      \/ IsAlive(b.r[i]) /\ \E m \in b.r[i].body : m.ref \in Known[m.type]}

(* Parents of a set of ids: the base index, and what the delta layer says. *)
IsParentWay(i, w) == <<i, w>> \in nodeWay \/ (w \in delta.w /\ i \in RefsOf(root, w))
IsParentRelation(i, r) ==
  \/ <<i, r>> \in member
  \/ r \in delta.r /\ \E m \in MembersOf(root, r) : m.ref = i
ParentRelations(ids) == {r \in Relations : \E i \in ids : IsParentRelation(i, r)}

(* Mutant: only ways that are in the batch. *)
TouchedWaysBatchOnly(b) == KeptWays(b)

TouchedWays(b) ==
  KeptWays(b) \cup {w \in Known.w : \E i \in KeptNodes(b) : IsParentWay(i, w)}

FirstParents(b) ==
  KeptRelations(b) \cup ParentRelations(KeptNodes(b)) \cup ParentRelations(TouchedWays(b))

(* Mutant: the search stops at the first parents. *)
AncestorsNone(ids) == ids

(* Nested relations, up to a number of rounds. *)
Ancestors(ids) ==
  LET found[j \in 0..Rounds] ==
        IF j = 0 THEN ids
        ELSE LET before == found[j - 1] IN before \cup ParentRelations(before)
  IN  found[Rounds]

TouchedRelations(b) == KeptRelations(b) \cup (Ancestors(FirstParents(b)) \cap Known.r)

(* The rows after the batch. *)
Applied(b) ==
  [n |-> [i \in Nodes |-> IF i \in KeptNodes(b) THEN Stored(b.n[i]) ELSE root.n[i]],
   w |-> [i \in Ways |-> IF i \in KeptWays(b) THEN Stored(b.w[i]) ELSE root.w[i]],
   r |-> [i \in Relations |-> IF i \in KeptRelations(b) THEN Stored(b.r[i]) ELSE root.r[i]]]

(* Touched ways are resolved from the rows after the batch; the others     *)
(* keep their box.                                                         *)
ResolvedWays(b) ==
  [w \in Ways |-> IF w \in TouchedWays(b) THEN WayBox(Applied(b), w) ELSE box.w[w]]

(* A touched member relation counts with its first pass, any other with    *)
(* the box it has.                                                         *)
ResolvedRelations(b) ==
  LET touched == TouchedRelations(b)
      ways == ResolvedWays(b)
      rows == Applied(b)
      lookup == [r \in Relations |-> IF r \in touched THEN Box0(rows, ways, r) ELSE box.r[r]]
  IN  [r \in Relations |-> IF r \in touched THEN Box1(rows, ways, lookup, r) ELSE box.r[r]]

Apply(b) ==
  /\ root' = Applied(b)
  /\ box' = [w |-> ResolvedWays(b), r |-> ResolvedRelations(b)]
  /\ delta' = [n |-> delta.n \cup KeptNodes(b),
               w |-> delta.w \cup TouchedWays(b),
               r |-> delta.r \cup TouchedRelations(b)]

(* fetch_range: up to MaxDiffs, up to the first that is not there yet. *)
RunOnce ==
  /\ built
  /\ \E k \in 1..Len(log) :
       /\ k <= MaxDiffs
       /\ Apply(Batch(k))
       /\ log' = SubSeq(log, k + 1, Len(log))
  /\ UNCHANGED <<up, changes, built, baseRefs, nodeWay, member>>

-----------------------------------------------------------------------------
(* Compaction.  Nodes whose pairs are written again: refs that the changed *)
(* ways had in the base, refs they have now, and changed nodes.            *)
PairsTouched ==
  {i \in Nodes : \/ i \in delta.n
                 \/ \E w \in delta.w : i \in baseRefs[w] \cup RefsOf(root, w)}

NewRefs == [w \in Ways |-> IF w \in delta.w THEN RefsOf(root, w) ELSE baseRefs[w]]

NewNodeWay ==
  IF ~HasNodeWay THEN {}
  ELSE {p \in nodeWay : p[1] \notin PairsTouched}
         \cup {p \in Pairs(NewRefs) : p[1] \in PairsTouched}

Compact ==
  /\ built
  /\ baseRefs' = NewRefs
  /\ nodeWay' = NewNodeWay
  /\ member' = MemberPairs(root)
  /\ delta' = NoDelta
  /\ UNCHANGED <<up, changes, log, built, root, box>>

Next == PublishSome \/ Build \/ RunOnce \/ Compact
Spec == Init /\ [][Next]_vars

-----------------------------------------------------------------------------
(* Where the node_way index was built, every way has the box the builder   *)
(* would give it from the current rows: no move, deletion or arrival of a  *)
(* node leaves a parent way behind (_touched_set, _resolve in              *)
(* update/updater.py).                                                     *)
WaysAsBuilt == HasNodeWay => \A w \in Ways : box.w[w] = WayBox(root, w)

(* So has every relation whose member relations have no relations as       *)
(* members; the box of a deeper one depends on how diffs were batched.     *)
RelationsAsBuilt ==
  HasNodeWay =>
    \A r \in Relations :
      (\A i \in MemberRelations(root, r) : MemberRelations(root, i) = {})
        => box.r[r] = RelationBoxes(root)[r]

(* Each ref of a way leads back to the way, through the base index or      *)
(* through the delta layer (_build_delta_indexes, _compact_node_way_index).*)
ParentsFound == HasNodeWay => \A w \in Ways : \A i \in RefsOf(root, w) : IsParentWay(i, w)

(* The base index has no pair that the base table does not have. *)
IndexInverts == nodeWay \subseteq Pairs(baseRefs)

(* The inductive invariant behind WaysAsBuilt: a run can only find the     *)
(* parents of a moved node if the two layers together invert the refs, and *)
(* a compaction, which rewrites some pairs and keeps the others, can only  *)
(* preserve that if the base index and the base table agree.               *)
BatchInv == TypeOK /\ WaysAsBuilt /\ ParentsFound /\ IndexInverts

(* With no diff left, every row of the root is the upstream row, and no    *)
(* node inside the extent is missing: whatever was replayed from before    *)
(* the extract, dropped as stale or brought back from the dead has been    *)
(* made good (_drop_stale_versions, _extent_filter).                       *)
FollowsUpstream ==
  built /\ log = <<>> =>
    /\ \A i \in Nodes : i \in Known.n => root.n[i] = up.n[i]
    /\ \A i \in Ways : i \in Known.w => root.w[i] = up.w[i]
    /\ \A i \in Relations : i \in Known.r => root.r[i] = up.r[i]
    /\ \A i \in Nodes : up.n[i].body \in Extent => i \in Known.n

(* A planet root has the world as its extent, and the filter keeps every   *)
(* relation that has members (_extent_filter).                             *)
PlanetKeepsRelations ==
  built /\ log = <<>> /\ Extent = Places =>
    \A r \in Relations : MembersOf(up, r) # {} => r \in Known.r

(* Each member of a relation leads back to the relation, likewise          *)
(* (_parent_relations; the member index of build/indexes.py).              *)
MembersFound == \A r \in Relations : \A m \in MembersOf(root, r) : IsParentRelation(m.ref, r)

(* The inductive invariant behind RelationsAsBuilt.                        *)
RelationInv == BatchInv /\ MembersFound /\ RelationsAsBuilt

InLog(t, i, from) == \E j \in DOMAIN log : j > from /\ log[j].type = t /\ log[j].id = i

(* A diff that is still to be applied brings the upstream row, or an older *)
(* one that a later diff replaces.                                         *)
LogLeadsUp ==
  \A j \in DOMAIN log :
    LET e == log[j]
        now == up[e.type][e.id]
    IN  /\ e.row.ver > 0
        /\ e.row = now \/ (e.row.ver < now.ver /\ InLog(e.type, e.id, j))

(* A row of the root is none, the upstream row, or an older one that a     *)
(* diff still to be applied replaces.                                      *)
RootLeadsUp ==
  \A t \in {"n", "w", "r"} : \A i \in DOMAIN up[t] :
    \/ root[t][i] = Absent
    \/ /\ IsAlive(root[t][i])
       /\ root[t][i] = up[t][i] \/ (root[t][i].ver < up[t][i].ver /\ InLog(t, i, 0))

(* A node inside the extent is in the root, or in a diff still to come. *)
NodesArrive ==
  built => \A i \in Nodes : up.n[i].body \in Extent => i \in Known.n \/ InLog("n", i, 0)

(* The inductive invariant behind FollowsUpstream. *)
UpstreamInv == TypeOK /\ LogLeadsUp /\ RootLeadsUp /\ NodesArrive
=============================================================================
