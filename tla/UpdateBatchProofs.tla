-------------------------- MODULE UpdateBatchProofs --------------------------
(***************************************************************************)
(* For any data and any grouping of diffs into runs: runs and compactions  *)
(* keep the boxes of ways (BatchInv) and of relations (RelationInv) as     *)
(* built, and the root follows upstream (UpstreamInv).                     *)
(***************************************************************************)
EXTENDS UpdateBatch, WellFoundedInduction, TLAPS

(* Refs and members of typed rows are ids of the right type. *)
LEMMA RefsTyped ==
  ASSUME NEW d \in Data, NEW w \in Ways
  PROVE  RefsOf(d, w) \in SUBSET Nodes
BY BatchAssumption DEF RefsOf, Data, Row, IsAlive

LEMMA MembersTyped ==
  ASSUME NEW d \in Data, NEW r \in Relations
  PROVE  MembersOf(d, r) \in SUBSET Member
BY BatchAssumption DEF MembersOf, Data, Row, IsAlive

(* A way's box is made of places. *)
LEMMA WayBoxTyped ==
  ASSUME NEW d \in Data, NEW w \in Ways
  PROVE  WayBox(d, w) \in SUBSET Places
<1> RefsOf(d, w) \in SUBSET Nodes
  BY RefsTyped
<1> QED
  BY DEF WayBox, Data, Row

(* So are both passes of a relation's box. *)
LEMMA Box0Typed ==
  ASSUME NEW d \in Data, NEW ways \in [Ways -> SUBSET Places], NEW r \in Relations
  PROVE  Box0(d, ways, r) \in SUBSET Places
<1>1. ASSUME NEW m \in MembersOf(d, r)
      PROVE  (CASE m.type = "n" -> {d.n[m.ref].body} \ {None}
                [] m.type = "w" -> ways[m.ref]
                [] m.type = "r" -> {}) \in SUBSET Places
  <2> m \in Member
    BY MembersTyped
  <2>1. CASE m.type = "n"
    <3> m.ref \in Nodes
      BY <2>1 DEF Member
    <3> QED
      BY <2>1 DEF Data, Row
  <2>2. CASE m.type = "w"
    <3> m.ref \in Ways
      BY <2>2 DEF Member
    <3> QED
      BY <2>2
  <2>3. CASE m.type = "r"
    BY <2>3
  <2> QED
    BY <2>1, <2>2, <2>3 DEF Member
<1> QED
  BY <1>1 DEF Box0

LEMMA Box1Typed ==
  ASSUME NEW d \in Data, NEW ways \in [Ways -> SUBSET Places],
         NEW lookup \in [Relations -> SUBSET Places], NEW r \in Relations
  PROVE  Box1(d, ways, lookup, r) \in SUBSET Places
<1>1. Box0(d, ways, r) \in SUBSET Places
  BY Box0Typed
<1>2. MemberRelations(d, r) \in SUBSET Relations
  BY MembersTyped DEF MemberRelations, Member
<1> QED
  BY <1>1, <1>2 DEF Box1

LEMMA BuilderBoxesTyped ==
  ASSUME NEW d \in Data
  PROVE  /\ WayBoxes(d) \in [Ways -> SUBSET Places]
         /\ RelationBoxes(d) \in [Relations -> SUBSET Places]
<1>1. WayBoxes(d) \in [Ways -> SUBSET Places]
  BY WayBoxTyped DEF WayBoxes
<1>2. [r \in Relations |-> Box0(d, WayBoxes(d), r)] \in [Relations -> SUBSET Places]
  BY <1>1, Box0Typed
<1> QED
  BY <1>1, <1>2, Box1Typed DEF RelationBoxes

(* A stored row is the row or none. *)
LEMMA StoredTyped ==
  ASSUME NEW bodies, NEW row \in Row(bodies)
  PROVE  Stored(row) \in Row(bodies)
BY DEF Stored, Row, Absent

-----------------------------------------------------------------------------
(* What a batch holds: for each type a row of that type. *)
LEMMA BatchTyped ==
  ASSUME TypeOK, NEW k \in 1..Len(log)
  PROVE  /\ DOMAIN Batch(k).n \subseteq Nodes
         /\ \A i \in DOMAIN Batch(k).n : Batch(k).n[i] \in Row(Places)
         /\ DOMAIN Batch(k).w \subseteq Ways
         /\ \A i \in DOMAIN Batch(k).w : Batch(k).w[i] \in Row(RefSets)
         /\ DOMAIN Batch(k).r \subseteq Relations
         /\ \A i \in DOMAIN Batch(k).r : Batch(k).r[i] \in Row(MemberSets)
<1>1. ASSUME NEW j \in Final(k)
      PROVE  log[j] \in Change
  BY DEF TypeOK, Final
<1>2. ASSUME NEW t, NEW i \in InDiffs(k, t)
      PROVE  \E j \in Final(k) : log[j].type = t /\ log[j].id = i /\ Last(k, t, i) = log[j].row
  BY DEF InDiffs, Last
<1>3. ASSUME NEW i \in InDiffs(k, "n")
      PROVE  i \in Nodes /\ Last(k, "n", i) \in Row(Places)
  BY <1>1, <1>2 DEF Change
<1>4. ASSUME NEW i \in InDiffs(k, "w")
      PROVE  i \in Ways /\ Last(k, "w", i) \in Row(RefSets)
  BY <1>1, <1>2 DEF Change
<1>5. ASSUME NEW i \in InDiffs(k, "r")
      PROVE  i \in Relations /\ Last(k, "r", i) \in Row(MemberSets)
  BY <1>1, <1>2 DEF Change
<1> QED
  BY <1>3, <1>4, <1>5 DEF Batch, Fresh

(* What is kept and touched are ids, and the rows after a run are typed. *)
LEMMA AppliedTyped ==
  ASSUME TypeOK, NEW k \in 1..Len(log)
  PROVE  /\ KeptNodes(Batch(k)) \subseteq Nodes
         /\ KeptWays(Batch(k)) \subseteq TouchedWays(Batch(k))
         /\ TouchedWays(Batch(k)) \subseteq Ways
         /\ TouchedRelations(Batch(k)) \subseteq Relations
         /\ Applied(Batch(k)) \in Data
<1> DEFINE b == Batch(k)
<1>1. /\ KeptNodes(b) \subseteq Nodes
      /\ \A i \in KeptNodes(b) : b.n[i] \in Row(Places)
  BY BatchTyped DEF KeptNodes
<1>2. /\ KeptWays(b) \subseteq Ways
      /\ \A i \in KeptWays(b) : b.w[i] \in Row(RefSets)
  BY BatchTyped DEF KeptWays
<1>3. /\ KeptRelations(b) \subseteq Relations
      /\ \A i \in KeptRelations(b) : b.r[i] \in Row(MemberSets)
  BY BatchTyped DEF KeptRelations
<1>4. KeptWays(b) \subseteq TouchedWays(b) /\ TouchedWays(b) \subseteq Ways
  BY <1>2 DEF TouchedWays, Known
<1>5. TouchedRelations(b) \subseteq Relations
  BY <1>3 DEF TouchedRelations, Known
<1> HIDE DEF b
<1>6. Applied(b) \in Data
  BY <1>1, <1>2, <1>3, StoredTyped DEF Applied, TypeOK, Data
<1> QED
  BY <1>1, <1>4, <1>5, <1>6 DEF b

-----------------------------------------------------------------------------
(* The root the first build leaves. *)
LEMMA ExtractTyped ==
  ASSUME TypeOK
  PROVE  Extract \in Data
BY StoredTyped DEF Extract, TypeOK, Data, Row, Absent

LEMMA InitTypes == Init => TypeOK
<1> SUFFICES ASSUME Init
             PROVE  TypeOK
  OBVIOUS
<1>1. Empty \in Data
  BY DEF Empty, Data, Row, Absent
<1>2. up \in Data
  BY BatchAssumption DEF Init
<1>3. log \in Seq(Change)
  BY DEF Init
<1>4. box \in [w : [Ways -> SUBSET Places], r : [Relations -> SUBSET Places]]
  BY DEF Init
<1>5. delta \in [n : SUBSET Nodes, w : SUBSET Ways, r : SUBSET Relations]
  BY DEF Init, NoDelta
<1>6. /\ nodeWay \subseteq Nodes \X Ways
      /\ member \subseteq (Nodes \cup Ways \cup Relations) \X Relations
  BY DEF Init
<1>7. changes \in Nat /\ baseRefs \in [Ways -> SUBSET Nodes]
  BY DEF Init
<1> QED
  BY <1>1, <1>2, <1>3, <1>4, <1>5, <1>6, <1>7 DEF Init, TypeOK

LEMMA PublishTypes ==
  ASSUME TypeOK, PublishSome
  PROVE  TypeOK'
<1>1. ASSUME NEW i \in Nodes, NEW body \in Places \cup {None}, Publish("n", i, body)
      PROVE  TypeOK'
  <2> DEFINE row == [ver |-> up.n[i].ver + 1, body |-> body]
  <2>1. row \in Row(Places)
    BY DEF TypeOK, Data, Row
  <2>2. up' \in Data
    BY <1>1, <2>1 DEF Publish, TypeOK, Data
  <2>3. log' \in Seq(Change)
    BY <1>1, <2>1 DEF Publish, TypeOK, Change
  <2> QED
    BY <1>1, <2>2, <2>3 DEF Publish, TypeOK
<1>2. ASSUME NEW i \in Ways, NEW body \in RefSets \cup {None}, Publish("w", i, body)
      PROVE  TypeOK'
  <2> DEFINE row == [ver |-> up.w[i].ver + 1, body |-> body]
  <2>1. row \in Row(RefSets)
    BY DEF TypeOK, Data, Row
  <2>2. up' \in Data
    BY <1>2, <2>1 DEF Publish, TypeOK, Data
  <2>3. log' \in Seq(Change)
    BY <1>2, <2>1 DEF Publish, TypeOK, Change
  <2> QED
    BY <1>2, <2>2, <2>3 DEF Publish, TypeOK
<1>3. ASSUME NEW i \in Relations, NEW body \in MemberSets \cup {None}, Publish("r", i, body)
      PROVE  TypeOK'
  <2> DEFINE row == [ver |-> up.r[i].ver + 1, body |-> body]
  <2>1. row \in Row(MemberSets)
    BY DEF TypeOK, Data, Row
  <2>2. up' \in Data
    BY <1>3, <2>1 DEF Publish, TypeOK, Data
  <2>3. log' \in Seq(Change)
    BY <1>3, <2>1 DEF Publish, TypeOK, Change
  <2> QED
    BY <1>3, <2>2, <2>3 DEF Publish, TypeOK
<1> QED
  BY <1>1, <1>2, <1>3 DEF PublishSome

LEMMA BuildTypes ==
  ASSUME TypeOK, Build
  PROVE  TypeOK'
<1>1. Extract \in Data
  BY ExtractTyped
<1>2. box' \in [w : [Ways -> SUBSET Places], r : [Relations -> SUBSET Places]]
  BY <1>1, BuilderBoxesTyped DEF Build
<1>3. log' \in Seq(Change)
  BY DEF Build, TypeOK
<1>4. baseRefs' \in [Ways -> SUBSET Nodes]
  BY <1>1, RefsTyped DEF Build
<1>5. nodeWay' \subseteq Nodes \X Ways
  BY DEF Build, Pairs
<1>6. member' \subseteq (Nodes \cup Ways \cup Relations) \X Relations
  BY DEF Build, MemberPairs
<1> QED
  BY <1>1, <1>2, <1>3, <1>4, <1>5, <1>6 DEF Build, TypeOK

LEMMA RunTypes ==
  ASSUME TypeOK, RunOnce
  PROVE  TypeOK'
<1> PICK k \in 1..Len(log) : Apply(Batch(k)) /\ log' = SubSeq(log, k + 1, Len(log))
  BY DEF RunOnce
<1> DEFINE b == Batch(k)
<1>1. /\ KeptNodes(b) \subseteq Nodes
      /\ TouchedWays(b) \subseteq Ways
      /\ TouchedRelations(b) \subseteq Relations
      /\ Applied(b) \in Data
  BY AppliedTyped
<1> HIDE DEF b
<1>2. ResolvedWays(b) \in [Ways -> SUBSET Places]
  BY <1>1, WayBoxTyped DEF ResolvedWays, TypeOK
<1>3. ResolvedRelations(b) \in [Relations -> SUBSET Places]
  <2> DEFINE lookup == [r \in Relations |->
               IF r \in TouchedRelations(b) THEN Box0(Applied(b), ResolvedWays(b), r) ELSE box.r[r]]
  <2>1. lookup \in [Relations -> SUBSET Places]
    BY <1>1, <1>2, Box0Typed DEF TypeOK
  <2>2. \A r \in Relations : Box1(Applied(b), ResolvedWays(b), lookup, r) \in SUBSET Places
    BY <1>1, <1>2, <2>1, Box1Typed
  <2>3. ResolvedRelations(b) = [r \in Relations |->
          IF r \in TouchedRelations(b) THEN Box1(Applied(b), ResolvedWays(b), lookup, r) ELSE box.r[r]]
    BY DEF ResolvedRelations
  <2> HIDE DEF lookup
  <2> QED
    BY <2>2, <2>3 DEF TypeOK
<1>4. root' = Applied(b) /\ box' = [w |-> ResolvedWays(b), r |-> ResolvedRelations(b)]
  BY DEF Apply, b
<1>5. delta' \in [n : SUBSET Nodes, w : SUBSET Ways, r : SUBSET Relations]
  BY <1>1 DEF Apply, TypeOK, b
<1>6. log' \in Seq(Change)
  BY DEF TypeOK
<1> QED
  BY <1>1, <1>2, <1>3, <1>4, <1>5, <1>6 DEF RunOnce, TypeOK

LEMMA CompactTypes ==
  ASSUME TypeOK, Compact
  PROVE  TypeOK'
<1>1. NewRefs \in [Ways -> SUBSET Nodes]
  BY RefsTyped DEF NewRefs, TypeOK
<1>2. NewNodeWay \subseteq Nodes \X Ways
  BY DEF NewNodeWay, Pairs, TypeOK
<1>3. MemberPairs(root) \subseteq (Nodes \cup Ways \cup Relations) \X Relations
  BY DEF MemberPairs
<1> QED
  BY <1>1, <1>2, <1>3 DEF Compact, TypeOK, NoDelta

(* Every step keeps the types. *)
LEMMA StepTypes ==
  ASSUME TypeOK, [Next]_vars
  PROVE  TypeOK'
<1>1. CASE UNCHANGED vars
  BY <1>1 DEF TypeOK, vars
<1> QED
  BY <1>1, PublishTypes, BuildTypes, RunTypes, CompactTypes DEF Next

-----------------------------------------------------------------------------
(* The other parts of the invariant, step by step. *)

LEMMA InitBoxes == Init => WaysAsBuilt /\ ParentsFound /\ IndexInverts
<1> SUFFICES ASSUME Init
             PROVE  WaysAsBuilt /\ ParentsFound /\ IndexInverts
  OBVIOUS
<1>1. \A w \in Ways : RefsOf(root, w) = {}
  BY DEF Init, Empty, RefsOf, IsAlive, Absent
<1>2. WaysAsBuilt
  BY <1>1 DEF WaysAsBuilt, WayBox, Init
<1>3. ParentsFound
  BY <1>1 DEF ParentsFound
<1>4. IndexInverts
  BY DEF IndexInverts, Init
<1> QED
  BY <1>2, <1>3, <1>4

LEMMA BuildBoxes ==
  ASSUME TypeOK, Build
  PROVE  WaysAsBuilt' /\ ParentsFound' /\ IndexInverts'
<1>1. Extract \in Data
  BY ExtractTyped
<1>2. WaysAsBuilt'
  BY DEF WaysAsBuilt, Build, WayBoxes
<1>3. ParentsFound'
  <2> SUFFICES ASSUME HasNodeWay, NEW w \in Ways, NEW i \in RefsOf(Extract, w)
               PROVE  <<i, w>> \in nodeWay'
    BY DEF ParentsFound, IsParentWay, Build
  <2> i \in Nodes
    BY <1>1, RefsTyped
  <2> QED
    BY DEF Build, Pairs
<1>4. IndexInverts'
  BY DEF IndexInverts, Build
<1> QED
  BY <1>2, <1>3, <1>4

(* A run: a way it does not touch has the refs it had, and none of these   *)
(* nodes is in the batch, because each of them would have led to the way.  *)
LEMMA RunBoxes ==
  ASSUME BatchInv, RunOnce
  PROVE  WaysAsBuilt' /\ ParentsFound' /\ IndexInverts'
<1> PICK k \in 1..Len(log) : Apply(Batch(k))
  BY DEF RunOnce
<1> DEFINE b == Batch(k)
<1>1. /\ KeptNodes(b) \subseteq Nodes
      /\ KeptWays(b) \subseteq TouchedWays(b)
      /\ TouchedWays(b) \subseteq Ways
      /\ Applied(b) \in Data
  BY AppliedTyped DEF BatchInv
<1>2. /\ root' = Applied(b)
      /\ box'.w = ResolvedWays(b)
      /\ delta'.w = delta.w \cup TouchedWays(b)
      /\ nodeWay' = nodeWay
      /\ baseRefs' = baseRefs
  BY DEF Apply, RunOnce
<1> HIDE DEF b
<1>3. ASSUME NEW w \in Ways, w \notin KeptWays(b)
      PROVE  RefsOf(Applied(b), w) = RefsOf(root, w)
  BY <1>3 DEF RefsOf, Applied
<1>4. WaysAsBuilt'
  <2> SUFFICES ASSUME HasNodeWay, NEW w \in Ways
               PROVE  ResolvedWays(b)[w] = WayBox(Applied(b), w)
    BY <1>2 DEF WaysAsBuilt
  <2>1. CASE w \in TouchedWays(b)
    BY <2>1 DEF ResolvedWays
  <2>2. CASE w \notin TouchedWays(b)
    <3>1. RefsOf(Applied(b), w) = RefsOf(root, w) /\ RefsOf(root, w) \in SUBSET Nodes
      BY <1>1, <1>3, <2>2, RefsTyped DEF BatchInv, TypeOK
    <3>2. ASSUME NEW i \in RefsOf(root, w)
          PROVE  i \notin KeptNodes(b)
      <4>1. IsParentWay(i, w) /\ w \in Known.w
        BY DEF BatchInv, ParentsFound, Known, RefsOf
      <4> QED
        BY <2>2, <4>1 DEF TouchedWays
    <3>3. \A i \in RefsOf(root, w) : Applied(b).n[i] = root.n[i]
      BY <3>1, <3>2 DEF Applied
    <3>4. WayBox(Applied(b), w) = WayBox(root, w)
      BY <3>1, <3>3 DEF WayBox
    <3> QED
      BY <2>2, <3>4 DEF ResolvedWays, BatchInv, WaysAsBuilt
  <2> QED
    BY <2>1, <2>2
<1>5. ParentsFound'
  <2> SUFFICES ASSUME HasNodeWay, NEW w \in Ways, NEW i \in RefsOf(Applied(b), w)
               PROVE  <<i, w>> \in nodeWay \/ w \in delta'.w
    BY <1>2 DEF ParentsFound, IsParentWay
  <2>1. CASE w \in KeptWays(b)
    BY <1>1, <1>2, <2>1
  <2>2. CASE w \notin KeptWays(b)
    BY <1>2, <1>3, <2>2 DEF BatchInv, ParentsFound, IsParentWay
  <2> QED
    BY <2>1, <2>2
<1>6. IndexInverts'
  BY <1>2 DEF BatchInv, IndexInverts, Pairs
<1> QED
  BY <1>4, <1>5, <1>6

(* A compaction: the pairs of a node are written again from the new table  *)
(* if a way with this ref changed, and else they are as they were.         *)
LEMMA CompactBoxes ==
  ASSUME BatchInv, Compact
  PROVE  WaysAsBuilt' /\ ParentsFound' /\ IndexInverts'
<1>1. WaysAsBuilt'
  BY DEF BatchInv, WaysAsBuilt, Compact, WayBox, RefsOf
<1>2. ParentsFound'
  <2> SUFFICES ASSUME HasNodeWay, NEW w \in Ways, NEW i \in RefsOf(root, w)
               PROVE  <<i, w>> \in NewNodeWay
    BY DEF ParentsFound, IsParentWay, Compact, RefsOf
  <2>1. i \in Nodes
    BY RefsTyped DEF BatchInv, TypeOK
  <2>2. CASE w \in delta.w
    <3>1. i \in PairsTouched
      BY <2>1, <2>2 DEF PairsTouched
    <3>2. <<i, w>> \in Pairs(NewRefs)
      BY <2>1, <2>2 DEF Pairs, NewRefs
    <3> QED
      BY <3>1, <3>2 DEF NewNodeWay
  <2>3. CASE w \notin delta.w
    <3>1. <<i, w>> \in nodeWay
      BY <2>3 DEF BatchInv, ParentsFound, IsParentWay
    <3>2. <<i, w>> \in Pairs(NewRefs)
      BY <2>1, <2>3, <3>1 DEF BatchInv, IndexInverts, Pairs, NewRefs
    <3> QED
      BY <3>1, <3>2 DEF NewNodeWay
  <2> QED
    BY <2>2, <2>3
<1>3. IndexInverts'
  <2> SUFFICES ASSUME NEW p \in NewNodeWay
               PROVE  p \in Pairs(NewRefs)
    BY DEF IndexInverts, Compact, Pairs
  <2>1. CASE p \in nodeWay /\ p[1] \notin PairsTouched
    <3>1. p \in Nodes \X Ways /\ p[1] \in baseRefs[p[2]]
      BY <2>1 DEF BatchInv, IndexInverts, Pairs
    <3>2. p[2] \notin delta.w
      BY <2>1, <3>1 DEF PairsTouched
    <3> QED
      BY <3>1, <3>2 DEF Pairs, NewRefs
  <2> QED
    BY <2>1 DEF NewNodeWay
<1> QED
  BY <1>1, <1>2, <1>3

LEMMA StepBoxes ==
  ASSUME BatchInv, [Next]_vars
  PROVE  WaysAsBuilt' /\ ParentsFound' /\ IndexInverts'
<1>1. ASSUME UNCHANGED <<root, box, delta, baseRefs, nodeWay>>
      PROVE  WaysAsBuilt' /\ ParentsFound' /\ IndexInverts'
  BY <1>1 DEF BatchInv, WaysAsBuilt, WayBox, ParentsFound, IsParentWay, RefsOf, IndexInverts, Pairs
<1>2. CASE PublishSome
  BY <1>1, <1>2 DEF PublishSome, Publish
<1>3. CASE UNCHANGED vars
  BY <1>1, <1>3 DEF vars
<1> QED
  BY <1>2, <1>3, BuildBoxes, RunBoxes, CompactBoxes DEF Next, BatchInv

-----------------------------------------------------------------------------
(* The inductive invariant holds in every reachable state, for every set   *)
(* of elements and every grouping of diffs into runs.                      *)
THEOREM BatchInvariant == Spec => []BatchInv
<1>1. Init => BatchInv
  BY InitTypes, InitBoxes DEF BatchInv
<1>2. BatchInv /\ [Next]_vars => BatchInv'
  BY StepTypes, StepBoxes DEF BatchInv
<1> QED
  BY <1>1, <1>2, PTL DEF Spec

(* Runs and compactions never leave a way with the box of an earlier state *)
(* of its nodes (_touched_set and _resolve in update/updater.py,           *)
(* _compact_node_way_index in build/compact.py).                           *)
THEOREM WaysFollowNodes == Spec => []WaysAsBuilt
<1>1. BatchInv => WaysAsBuilt
  BY DEF BatchInv
<1> QED
  BY <1>1, BatchInvariant, PTL
-----------------------------------------------------------------------------
(* The search for nested relations.                                        *)

(* Induction over the naturals, for a set. *)
LEMMA SetInduction ==
  ASSUME NEW S, 0 \in S, \A n \in Nat : n \in S => n + 1 \in S
  PROVE  Nat \subseteq S
<1> DEFINE R == OpToRel(<, Nat)
           T == Nat \ S
<1> SUFFICES ASSUME T # {}
             PROVE  FALSE
  OBVIOUS
<1>1. IsWellFoundedOn(R, Nat)
  BY NatLessThanWellFounded
<1>2. \A x, y \in Nat : x < y => <<x, y>> \in R
  BY DEF OpToRel
<1> HIDE DEF R
<1>3. PICK x \in T : \A y \in T : ~(<<y, x>> \in R)
  BY <1>1, WFMin
<1>4. x \in Nat /\ x # 0 /\ x - 1 \in Nat /\ x - 1 < x
  BY <1>3
<1>5. x - 1 \in S
  BY <1>2, <1>3, <1>4
<1>6. (x - 1) + 1 \in S
  BY <1>4, <1>5
<1> QED
  BY <1>3, <1>4, <1>6

(* The first j rounds of the search can be carried out, whatever j is. *)
IsSearch(f, ids, n) ==
  /\ f = [j \in 0..n |-> f[j]]
  /\ f[0] = ids
  /\ \A j \in 1..n : f[j] = f[j - 1] \cup ParentRelations(f[j - 1])

LEMMA SearchExists ==
  ASSUME NEW ids \in SUBSET Relations, NEW n \in Nat
  PROVE  \E f \in [0..n -> SUBSET Relations] : IsSearch(f, ids, n)
<1> DEFINE S == {m \in Nat : \E f \in [0..m -> SUBSET Relations] : IsSearch(f, ids, m)}
<1>1. 0 \in S
  <2> DEFINE g == [j \in 0..0 |-> ids]
  <2>1. g \in [0..0 -> SUBSET Relations] /\ g[0] = ids
    OBVIOUS
  <2>2. IsSearch(g, ids, 0)
    BY <2>1 DEF IsSearch
  <2> QED
    BY <2>1, <2>2
<1>2. ASSUME NEW m \in Nat, m \in S
      PROVE  m + 1 \in S
  <2>1. PICK f \in [0..m -> SUBSET Relations] : IsSearch(f, ids, m)
    BY <1>2
  <2> DEFINE g == [j \in 0..(m + 1) |-> IF j = m + 1 THEN f[m] \cup ParentRelations(f[m]) ELSE f[j]]
  <2>2. f[m] \cup ParentRelations(f[m]) \in SUBSET Relations
    BY DEF ParentRelations
  <2>3. g \in [0..(m + 1) -> SUBSET Relations]
    BY <2>2
  <2>4. g[0] = ids /\ g = [j \in 0..(m + 1) |-> g[j]]
    BY <2>1 DEF IsSearch
  <2>5. ASSUME NEW j \in 1..(m + 1)
        PROVE  g[j] = g[j - 1] \cup ParentRelations(g[j - 1])
    <3>1. CASE j = m + 1
      <4>1. g[j] = f[m] \cup ParentRelations(f[m])
        BY <3>1
      <4>2. g[j - 1] = f[m]
        BY <3>1
      <4> QED
        BY <4>1, <4>2
    <3>2. CASE j # m + 1
      <4>1. j \in 1..m /\ j - 1 \in 0..m /\ g[j] = f[j] /\ g[j - 1] = f[j - 1]
        BY <3>2
      <4> QED
        BY <2>1, <4>1 DEF IsSearch
    <3> QED
      BY <3>1, <3>2
  <2> HIDE DEF g
  <2>6. IsSearch(g, ids, m + 1)
    BY <2>4, <2>5 DEF IsSearch
  <2> QED
    BY <2>3, <2>6
<1>3. Nat \subseteq S
  <2> HIDE DEF S
  <2> QED
    BY <1>1, <1>2, SetInduction
<1> QED
  BY <1>3

(* The search finds the ids it starts from and, there being at least one   *)
(* round, their parents.                                                   *)
LEMMA AncestorsGrow ==
  ASSUME NEW ids \in SUBSET Relations
  PROVE  ids \cup ParentRelations(ids) \subseteq Ancestors(ids)
<1> DEFINE Found(f) == [j \in 0..Rounds |->
             IF j = 0 THEN ids ELSE f[j - 1] \cup ParentRelations(f[j - 1])]
           found == CHOOSE f : f = Found(f)
<1>1. Rounds \in Nat /\ Rounds >= 1
  BY BatchAssumption
<1>2. Ancestors(ids) = found[Rounds]
  BY DEF Ancestors
<1>3. \E f : f = Found(f)
  <2>1. PICK f \in [0..Rounds -> SUBSET Relations] : IsSearch(f, ids, Rounds)
    BY <1>1, SearchExists
  <2>2. \A j \in 0..Rounds : f[j] = Found(f)[j]
    BY <1>1, <2>1 DEF IsSearch
  <2>3. f = Found(f)
    BY <2>1, <2>2 DEF IsSearch
  <2> QED
    BY <2>3
<1>4. found = Found(found)
  BY <1>3
<1>5. found[0] = ids /\ \A j \in 1..Rounds : found[j] = found[j - 1] \cup ParentRelations(found[j - 1])
  <2> HIDE DEF found
  <2>1. \A j \in 0..Rounds : found[j] = IF j = 0 THEN ids
                                       ELSE found[j - 1] \cup ParentRelations(found[j - 1])
    BY <1>4, Zenon
  <2>2. 0 \in 0..Rounds
    BY <1>1
  <2>3. \A j \in 1..Rounds : j \in 0..Rounds /\ j # 0
    BY <1>1
  <2> HIDE DEF Found
  <2>4. found[0] = ids
    BY <2>1, <2>2, Zenon
  <2>5. \A j \in 1..Rounds : found[j] = found[j - 1] \cup ParentRelations(found[j - 1])
    BY <2>1, <2>3, Zenon
  <2> QED
    BY <2>4, <2>5
<1> HIDE DEF found, Found
<1> DEFINE S == {m \in Nat : m + 1 > Rounds \/ ids \cup ParentRelations(ids) \subseteq found[m + 1]}
<1>6. 0 \in S
  BY <1>1, <1>5
<1>7. ASSUME NEW m \in Nat, m \in S
      PROVE  m + 1 \in S
  <2>1. CASE m + 2 > Rounds
    BY <1>1, <2>1
  <2>2. CASE m + 2 <= Rounds
    <3>1. m + 1 <= Rounds /\ m + 2 \in 1..Rounds /\ (m + 2) - 1 = m + 1 /\ (m + 1) + 1 = m + 2
      BY <1>1, <2>2
    <3>2. ids \cup ParentRelations(ids) \subseteq found[m + 1]
      BY <1>1, <1>7, <3>1
    <3>3. found[m + 2] = found[m + 1] \cup ParentRelations(found[m + 1])
      BY <1>5, <3>1
    <3> QED
      BY <3>1, <3>2, <3>3
  <2> QED
    BY <1>1, <2>1, <2>2
<1>8. Nat \subseteq S
  <2> HIDE DEF S
  <2> QED
    BY <1>6, <1>7, SetInduction
<1>9. Rounds - 1 \in Nat /\ (Rounds - 1) + 1 = Rounds
  BY <1>1
<1> QED
  BY <1>1, <1>2, <1>8, <1>9
-----------------------------------------------------------------------------
(* Relations: a run, seen from one relation.                               *)

(* What the first pass reads of a relation decides its outcome. *)
LEMMA Box0Same ==
  ASSUME NEW d \in Data, NEW e \in Data, NEW ways, NEW others, NEW r \in Relations,
         MembersOf(d, r) = MembersOf(e, r),
         \A m \in MembersOf(d, r) :
           /\ m.type = "n" => d.n[m.ref] = e.n[m.ref]
           /\ m.type = "w" => ways[m.ref] = others[m.ref]
  PROVE  Box0(d, ways, r) = Box0(e, others, r)
<1> DEFINE F(m) == CASE m.type = "n" -> {d.n[m.ref].body} \ {None}
                     [] m.type = "w" -> ways[m.ref]
                     [] m.type = "r" -> {}
           G(m) == CASE m.type = "n" -> {e.n[m.ref].body} \ {None}
                     [] m.type = "w" -> others[m.ref]
                     [] m.type = "r" -> {}
<1>1. ASSUME NEW m \in MembersOf(d, r)
      PROVE  F(m) = G(m)
  <2>1. m.type \in {"n", "w", "r"}
    BY MembersTyped DEF Member
  <2> QED
    BY <2>1
<1>2. Box0(d, ways, r) = UNION {F(m) : m \in MembersOf(d, r)}
  BY DEF Box0
<1>3. Box0(e, others, r) = UNION {G(m) : m \in MembersOf(d, r)}
  BY DEF Box0
<1> HIDE DEF F, G
<1> QED
  BY <1>1, <1>2, <1>3

LEMMA MemberRelationsTyped ==
  ASSUME NEW d \in Data, NEW r \in Relations
  PROVE  MemberRelations(d, r) \in SUBSET Relations
BY MembersTyped DEF MemberRelations, Member

(* A relation that the run does not reach directly keeps its members, and  *)
(* its first pass gives what it gave: a member node in the batch, or a     *)
(* touched member way, would have led to it.                               *)
LEMMA NotFirstSame ==
  ASSUME RelationInv, HasNodeWay, NEW k \in 1..Len(log), NEW r \in Relations,
         r \notin FirstParents(Batch(k))
  PROVE  /\ MembersOf(Applied(Batch(k)), r) = MembersOf(root, r)
         /\ Box0(Applied(Batch(k)), ResolvedWays(Batch(k)), r) = Box0(root, box.w, r)
<1> DEFINE b == Batch(k)
<1>1. Applied(b) \in Data /\ root \in Data
  BY AppliedTyped DEF RelationInv, BatchInv, TypeOK
<1>2. r \notin FirstParents(b)
  OBVIOUS
<1> HIDE DEF b
<1>3. MembersOf(Applied(b), r) = MembersOf(root, r)
  BY <1>2 DEF FirstParents, MembersOf, Applied
<1>4. ASSUME NEW m \in MembersOf(Applied(b), r)
      PROVE  /\ m.type = "n" => Applied(b).n[m.ref] = root.n[m.ref]
             /\ m.type = "w" => ResolvedWays(b)[m.ref] = box.w[m.ref]
  <2>1. m \in Member /\ IsParentRelation(m.ref, r)
    BY <1>1, <1>3, MembersTyped DEF RelationInv, MembersFound
  <2>2. m.ref \notin KeptNodes(b) /\ m.ref \notin TouchedWays(b)
    BY <1>2, <2>1 DEF FirstParents, ParentRelations
  <2>3. ASSUME m.type = "n"
        PROVE  Applied(b).n[m.ref] = root.n[m.ref]
    <3>1. m.ref \in Nodes
      BY <2>1, <2>3 DEF Member
    <3> QED
      BY <2>2, <3>1 DEF Applied
  <2>4. ASSUME m.type = "w"
        PROVE  ResolvedWays(b)[m.ref] = box.w[m.ref]
    <3>1. m.ref \in Ways
      BY <2>1, <2>4 DEF Member
    <3> QED
      BY <2>2, <3>1 DEF ResolvedWays
  <2> QED
    BY <2>3, <2>4
<1>5. Box0(Applied(b), ResolvedWays(b), r) = Box0(root, box.w, r)
  BY <1>1, <1>3, <1>4, Box0Same
<1> QED
  BY <1>3, <1>5 DEF b

(* The same for one that is not touched at all: if the run reached it, it  *)
(* is not in the root, and then it has no members.                         *)
LEMMA UntouchedSame ==
  ASSUME RelationInv, HasNodeWay, NEW k \in 1..Len(log), NEW r \in Relations,
         r \notin TouchedRelations(Batch(k))
  PROVE  /\ MembersOf(Applied(Batch(k)), r) = MembersOf(root, r)
         /\ Box0(Applied(Batch(k)), ResolvedWays(Batch(k)), r) = Box0(root, box.w, r)
<1> DEFINE b == Batch(k)
<1>1. CASE r \notin FirstParents(b)
  BY <1>1, NotFirstSame
<1>2. CASE r \in FirstParents(b)
  <2>1. FirstParents(b) \in SUBSET Relations
    <3>1. KeptRelations(b) \subseteq Relations
      BY BatchTyped DEF KeptRelations, RelationInv, BatchInv
    <3> QED
      BY <3>1 DEF FirstParents, ParentRelations
  <2>2. r \in Ancestors(FirstParents(b))
    BY <1>2, <2>1, AncestorsGrow
  <2>3. r \notin Known.r /\ r \notin KeptRelations(b)
    BY <2>2 DEF TouchedRelations
  <2> HIDE DEF b
  <2>4. MembersOf(root, r) = {} /\ MembersOf(Applied(b), r) = {}
    BY <2>3 DEF MembersOf, Applied, Known
  <2>5. Box0(Applied(b), ResolvedWays(b), r) = {} /\ Box0(root, box.w, r) = {}
    BY <2>4 DEF Box0
  <2> QED
    BY <2>4, <2>5 DEF b
<1> QED
  BY <1>1, <1>2

(* The builder's box of a relation, from the two passes. *)
LEMMA BuilderBox ==
  ASSUME NEW d \in Data, NEW r \in Relations
  PROVE  RelationBoxes(d)[r] = Box0(d, WayBoxes(d), r)
           \cup UNION {Box0(d, WayBoxes(d), i) : i \in MemberRelations(d, r)}
<1>1. MemberRelations(d, r) \in SUBSET Relations
  BY MemberRelationsTyped
<1> DEFINE box0 == [i \in Relations |-> Box0(d, WayBoxes(d), i)]
<1>2. RelationBoxes(d)[r] = Box0(d, WayBoxes(d), r) \cup UNION {box0[i] : i \in MemberRelations(d, r)}
  BY DEF RelationBoxes, Box1
<1>3. \A i \in MemberRelations(d, r) : box0[i] = Box0(d, WayBoxes(d), i)
  BY <1>1
<1> HIDE DEF box0
<1> QED
  BY <1>2, <1>3
(* The way boxes that the root keeps are the builder's. *)
LEMMA WayBoxesKept ==
  ASSUME TypeOK, WaysAsBuilt, HasNodeWay
  PROVE  box.w = WayBoxes(root)
BY DEF TypeOK, WaysAsBuilt, WayBoxes

(* A relation whose member relations have none themselves, if the run      *)
(* touches it: a touched member relation counts with its first pass, and   *)
(* any other has a box that is no more than its first pass.                *)
LEMMA TouchedAsBuilt ==
  ASSUME RelationInv, HasNodeWay, NEW k \in 1..Len(log), NEW r \in Relations,
         r \in TouchedRelations(Batch(k)),
         \A i \in MemberRelations(Applied(Batch(k)), r) : MemberRelations(Applied(Batch(k)), i) = {}
  PROVE  ResolvedRelations(Batch(k))[r] = Box0(Applied(Batch(k)), ResolvedWays(Batch(k)), r)
           \cup UNION {Box0(Applied(Batch(k)), ResolvedWays(Batch(k)), i) :
                         i \in MemberRelations(Applied(Batch(k)), r)}
<1> DEFINE b == Batch(k)
           rows == Applied(b)
           ways == ResolvedWays(b)
           lookup == [i \in Relations |-> IF i \in TouchedRelations(b) THEN Box0(rows, ways, i) ELSE box.r[i]]
<1>1. rows \in Data /\ root \in Data
  BY AppliedTyped DEF RelationInv, BatchInv, TypeOK
<1>2. MemberRelations(rows, r) \in SUBSET Relations
  BY <1>1, MemberRelationsTyped
<1>3. ASSUME NEW i \in MemberRelations(rows, r)
      PROVE  lookup[i] = Box0(rows, ways, i)
  <2>1. i \in Relations /\ MemberRelations(rows, i) = {}
    BY <1>2
  <2>2. CASE i \in TouchedRelations(b)
    BY <2>1, <2>2
  <2>3. CASE i \notin TouchedRelations(b)
    <3>1. MembersOf(rows, i) = MembersOf(root, i) /\ Box0(rows, ways, i) = Box0(root, box.w, i)
      BY <2>1, <2>3, UntouchedSame
    <3>2. MemberRelations(root, i) = {}
      BY <2>1, <3>1 DEF MemberRelations
    <3>3. box.r[i] = RelationBoxes(root)[i]
      BY <2>1, <3>2 DEF RelationInv, RelationsAsBuilt
    <3>4. RelationBoxes(root)[i] = Box0(root, WayBoxes(root), i)
      <4>1. RelationBoxes(root)[i] = Box0(root, WayBoxes(root), i)
              \cup UNION {Box0(root, WayBoxes(root), x) : x \in MemberRelations(root, i)}
        BY <1>1, <2>1, BuilderBox
      <4>2. UNION {Box0(root, WayBoxes(root), x) : x \in MemberRelations(root, i)} = {}
        BY <3>2
      <4> QED
        BY <4>1, <4>2
    <3>5. box.w = WayBoxes(root)
      BY WayBoxesKept DEF RelationInv, BatchInv
    <3>6. lookup[i] = box.r[i]
      BY <2>1, <2>3
    <3> QED
      BY <3>1, <3>3, <3>4, <3>5, <3>6
  <2> QED
    BY <2>2, <2>3
<1>4. ResolvedRelations(b)[r] = Box0(rows, ways, r) \cup UNION {lookup[i] : i \in MemberRelations(rows, r)}
  BY DEF ResolvedRelations, Box1
<1> HIDE DEF lookup
<1> QED
  BY <1>3, <1>4

(* If the run does not touch it, no member relation of its was reached     *)
(* directly, for that would have led to it in the next round of the        *)
(* search; so all that its box depends on is as it was.                    *)
LEMMA UntouchedAsBuilt ==
  ASSUME RelationInv, HasNodeWay, NEW k \in 1..Len(log), NEW r \in Relations,
         r \notin TouchedRelations(Batch(k)),
         \A i \in MemberRelations(Applied(Batch(k)), r) : MemberRelations(Applied(Batch(k)), i) = {}
  PROVE  ResolvedRelations(Batch(k))[r] = Box0(Applied(Batch(k)), ResolvedWays(Batch(k)), r)
           \cup UNION {Box0(Applied(Batch(k)), ResolvedWays(Batch(k)), i) :
                         i \in MemberRelations(Applied(Batch(k)), r)}
<1> DEFINE b == Batch(k)
           rows == Applied(b)
           ways == ResolvedWays(b)
<1>1. rows \in Data /\ root \in Data
  BY AppliedTyped DEF RelationInv, BatchInv, TypeOK
<1>2. MembersOf(rows, r) = MembersOf(root, r) /\ Box0(rows, ways, r) = Box0(root, box.w, r)
  BY UntouchedSame
<1>3. MemberRelations(rows, r) = MemberRelations(root, r) /\ MemberRelations(root, r) \in SUBSET Relations
  BY <1>1, <1>2, MemberRelationsTyped DEF MemberRelations
<1>4. ASSUME NEW i \in MemberRelations(root, r)
      PROVE  i \notin FirstParents(b)
  <2> SUFFICES ASSUME i \in FirstParents(b)
               PROVE  FALSE
    OBVIOUS
  <2>1. FirstParents(b) \in SUBSET Relations
    <3>1. KeptRelations(b) \subseteq Relations
      BY BatchTyped DEF KeptRelations, RelationInv, BatchInv
    <3> QED
      BY <3>1 DEF FirstParents, ParentRelations
  <2>2. PICK m \in MembersOf(root, r) : m.type = "r" /\ m.ref = i
    BY DEF MemberRelations
  <2>3. IsParentRelation(i, r)
    BY <2>2 DEF RelationInv, MembersFound
  <2>4. r \in ParentRelations(FirstParents(b))
    BY <2>3 DEF ParentRelations
  <2>5. r \in Ancestors(FirstParents(b))
    BY <2>1, <2>4, AncestorsGrow
  <2>6. r \in Known.r
    BY <2>2 DEF Known, MembersOf
  <2> QED
    BY <2>5, <2>6 DEF TouchedRelations
<1>5. ASSUME NEW i \in MemberRelations(root, r)
      PROVE  MembersOf(rows, i) = MembersOf(root, i) /\ Box0(rows, ways, i) = Box0(root, box.w, i)
  BY <1>3, <1>4, NotFirstSame
<1>6. \A i \in MemberRelations(root, r) : MemberRelations(root, i) = {}
  BY <1>3, <1>5 DEF MemberRelations
<1>7. box.r[r] = RelationBoxes(root)[r]
  BY <1>6 DEF RelationInv, RelationsAsBuilt
<1>8. RelationBoxes(root)[r] = Box0(root, box.w, r)
        \cup UNION {Box0(root, box.w, i) : i \in MemberRelations(root, r)}
  <2>1. box.w = WayBoxes(root)
    BY WayBoxesKept DEF RelationInv, BatchInv
  <2> QED
    BY <1>1, <2>1, BuilderBox
<1>9. ResolvedRelations(b)[r] = box.r[r]
  BY DEF ResolvedRelations
<1> HIDE DEF b
<1> QED
  BY <1>2, <1>3, <1>5, <1>7, <1>8, <1>9 DEF b

(* A run keeps the relations as built, and leaves a way back from each     *)
(* member.                                                                 *)
LEMMA RunRelations ==
  ASSUME RelationInv, RunOnce, BatchInv'
  PROVE  MembersFound' /\ RelationsAsBuilt'
<1> PICK k \in 1..Len(log) : Apply(Batch(k))
  BY DEF RunOnce
<1> DEFINE b == Batch(k)
<1>1. /\ root' = Applied(b)
      /\ box'.w = ResolvedWays(b)
      /\ box'.r = ResolvedRelations(b)
      /\ delta'.r = delta.r \cup TouchedRelations(b)
      /\ member' = member
  BY DEF Apply, RunOnce
<1>2. Applied(b) \in Data
  BY AppliedTyped DEF RelationInv, BatchInv
<1>3. MembersFound'
  <2> SUFFICES ASSUME NEW r \in Relations, NEW m \in MembersOf(Applied(b), r)
               PROVE  <<m.ref, r>> \in member \/ r \in delta'.r
    BY <1>1 DEF MembersFound, IsParentRelation
  <2>1. CASE r \in KeptRelations(b)
    BY <1>1, <2>1 DEF TouchedRelations
  <2>2. CASE r \notin KeptRelations(b)
    <3>1. MembersOf(Applied(b), r) = MembersOf(root, r)
      BY <2>2 DEF MembersOf, Applied
    <3> QED
      BY <1>1, <3>1 DEF RelationInv, MembersFound, IsParentRelation
  <2> QED
    BY <2>1, <2>2
<1>4. RelationsAsBuilt'
  <2> SUFFICES ASSUME HasNodeWay, NEW r \in Relations,
                      \A i \in MemberRelations(Applied(b), r) : MemberRelations(Applied(b), i) = {}
               PROVE  ResolvedRelations(b)[r] = RelationBoxes(Applied(b))[r]
    BY <1>1 DEF RelationsAsBuilt
  <2>1. ResolvedRelations(b)[r] = Box0(Applied(b), ResolvedWays(b), r)
          \cup UNION {Box0(Applied(b), ResolvedWays(b), i) : i \in MemberRelations(Applied(b), r)}
    BY TouchedAsBuilt, UntouchedAsBuilt
  <2>2. ResolvedWays(b) = WayBoxes(Applied(b))
    <3> HIDE DEF b
    <3>1. ResolvedWays(b) \in [Ways -> SUBSET Places]
      BY <1>1 DEF BatchInv, TypeOK
    <3>2. \A w \in Ways : ResolvedWays(b)[w] = WayBox(Applied(b), w)
      BY <1>1 DEF BatchInv, WaysAsBuilt
    <3> QED
      BY <3>1, <3>2 DEF WayBoxes
  <2> HIDE DEF b
  <2> QED
    BY <1>2, <2>1, <2>2, BuilderBox
<1> QED
  BY <1>3, <1>4

LEMMA BuildRelations ==
  ASSUME TypeOK, Build
  PROVE  MembersFound' /\ RelationsAsBuilt'
<1>1. Extract \in Data
  BY ExtractTyped
<1>2. MembersFound'
  <2> SUFFICES ASSUME NEW r \in Relations, NEW m \in MembersOf(Extract, r)
               PROVE  <<m.ref, r>> \in MemberPairs(Extract)
    BY DEF MembersFound, IsParentRelation, Build
  <2>1. m.ref \in Nodes \cup Ways \cup Relations
    BY <1>1, MembersTyped DEF Member
  <2> QED
    BY <2>1 DEF MemberPairs
<1>3. RelationsAsBuilt'
  BY DEF RelationsAsBuilt, Build
<1> QED
  BY <1>2, <1>3

LEMMA CompactRelations ==
  ASSUME RelationInv, Compact
  PROVE  MembersFound' /\ RelationsAsBuilt'
<1>1. MembersFound'
  <2> SUFFICES ASSUME NEW r \in Relations, NEW m \in MembersOf(root, r)
               PROVE  <<m.ref, r>> \in MemberPairs(root)
    BY DEF MembersFound, IsParentRelation, Compact, MembersOf
  <2>1. m.ref \in Nodes \cup Ways \cup Relations
    BY MembersTyped DEF Member, RelationInv, BatchInv, TypeOK
  <2> QED
    BY <2>1 DEF MemberPairs
<1>2. root' = root /\ box' = box
  BY DEF Compact
<1>3. RelationsAsBuilt'
  BY <1>2 DEF RelationInv, RelationsAsBuilt
<1> QED
  BY <1>1, <1>3

LEMMA InitRelations == Init => MembersFound /\ RelationsAsBuilt
<1> SUFFICES ASSUME Init
             PROVE  MembersFound /\ RelationsAsBuilt
  OBVIOUS
<1>1. \A r \in Relations : MembersOf(root, r) = {}
  BY DEF Init, Empty, MembersOf, IsAlive, Absent
<1>2. MembersFound
  BY <1>1 DEF MembersFound
<1>3. RelationsAsBuilt
  <2> SUFFICES ASSUME NEW r \in Relations
               PROVE  box.r[r] = RelationBoxes(root)[r]
    BY DEF RelationsAsBuilt
  <2>1. root \in Data
    BY InitTypes DEF TypeOK
  <2>2. MemberRelations(root, r) = {} /\ Box0(root, WayBoxes(root), r) = {}
    BY <1>1 DEF MemberRelations, Box0
  <2>3. RelationBoxes(root)[r] = {}
    BY <2>1, <2>2, BuilderBox
  <2> QED
    BY <2>3 DEF Init
<1> QED
  BY <1>2, <1>3

LEMMA StepRelations ==
  ASSUME RelationInv, [Next]_vars
  PROVE  RelationInv'
<1>1. BatchInv'
  BY StepTypes, StepBoxes DEF BatchInv, RelationInv
<1>2. ASSUME UNCHANGED <<root, box, delta, member>>
      PROVE  MembersFound' /\ RelationsAsBuilt'
  BY <1>2 DEF RelationInv, MembersFound, RelationsAsBuilt, IsParentRelation
<1>3. CASE PublishSome
  BY <1>1, <1>2, <1>3 DEF PublishSome, Publish, RelationInv
<1>4. CASE UNCHANGED vars
  BY <1>1, <1>2, <1>4 DEF vars, RelationInv
<1>5. CASE Build
  BY <1>1, <1>5, BuildRelations DEF RelationInv, BatchInv
<1>6. CASE RunOnce
  BY <1>1, <1>6, RunRelations DEF RelationInv
<1>7. CASE Compact
  BY <1>1, <1>7, CompactRelations DEF RelationInv
<1> QED
  BY <1>3, <1>4, <1>5, <1>6, <1>7 DEF Next

(* No grouping of diffs into runs, and no compaction between them, leaves  *)
(* a relation with the box of an earlier state of its members, as long as  *)
(* its member relations hold no relations themselves (_touched_set and     *)
(* _resolve in update/updater.py).                               *)
THEOREM RelationsFollowMembers == Spec => []RelationsAsBuilt
<1>1. Init => RelationInv
  BY InitTypes, InitBoxes, InitRelations DEF RelationInv, BatchInv
<1>2. RelationInv /\ [Next]_vars => RelationInv'
  BY StepRelations
<1>3. RelationInv => RelationsAsBuilt
  BY DEF RelationInv
<1> QED
  BY <1>1, <1>2, <1>3, PTL DEF Spec
-----------------------------------------------------------------------------
(* Following upstream: the diffs of one element.                           *)

Types == {"n", "w", "r"}

(* A set of naturals has a greatest element, if it is bounded. *)
LEMMA Greatest ==
  ASSUME NEW k \in Nat, NEW T \in SUBSET (1..k), T # {}
  PROVE  \E p \in T : \A l \in T : l <= p
<1> DEFINE S == {n \in Nat : \A U \in SUBSET (1..n) : U # {} => \E p \in U : \A l \in U : l <= p}
<1>1. 0 \in S
  <2>1. 1..0 = {}
    OBVIOUS
  <2>2. \A U \in SUBSET (1..0) : U = {}
    BY <2>1
  <2> QED
    BY <2>2
<1>2. ASSUME NEW n \in Nat, n \in S
      PROVE  n + 1 \in S
  <2> SUFFICES ASSUME NEW U \in SUBSET (1..(n + 1)), U # {}
               PROVE  \E p \in U : \A l \in U : l <= p
    OBVIOUS
  <2>1. CASE n + 1 \in U
    BY <2>1
  <2>2. CASE n + 1 \notin U
    <3>1. U \in SUBSET (1..n)
      BY <2>2
    <3> QED
      BY <1>2, <3>1
  <2> QED
    BY <2>1, <2>2
<1>3. Nat \subseteq S
  <2> HIDE DEF S
  <2> QED
    BY <1>1, <1>2, SetInduction
<1> QED
  BY <1>3

(* Versions are naturals, and a diff is about a known id. *)
LEMMA RowsTyped ==
  ASSUME TypeOK
  PROVE  /\ \A t \in Types : \A i \in DOMAIN up[t] : up[t][i].ver \in Nat /\ root[t][i].ver \in Nat
         /\ \A j \in DOMAIN log : /\ log[j].type \in Types
                                  /\ log[j].id \in DOMAIN up[log[j].type]
                                  /\ log[j].row.ver \in Nat
<1>1. ASSUME NEW t \in Types, NEW i \in DOMAIN up[t]
      PROVE  up[t][i].ver \in Nat /\ root[t][i].ver \in Nat
  <2>1. CASE t = "n"
    BY <2>1 DEF TypeOK, Data, Row
  <2>2. CASE t = "w"
    BY <2>2 DEF TypeOK, Data, Row
  <2>3. CASE t = "r"
    BY <2>3 DEF TypeOK, Data, Row
  <2> QED
    BY <2>1, <2>2, <2>3 DEF Types
<1>2. ASSUME NEW j \in DOMAIN log
      PROVE  /\ log[j].type \in Types
             /\ log[j].id \in DOMAIN up[log[j].type]
             /\ log[j].row.ver \in Nat
  <2>1. log[j] \in Change
    BY DEF TypeOK
  <2>2. DOMAIN up["n"] = Nodes /\ DOMAIN up["w"] = Ways /\ DOMAIN up["r"] = Relations
    BY DEF TypeOK, Data
  <2> QED
    BY <2>1, <2>2 DEF Change, Row, Types
<1> QED
  BY <1>1, <1>2

(* What the batch holds of an element is its last row among the first k    *)
(* diffs, if there is one.                                                 *)
LEMMA LastRow ==
  ASSUME TypeOK, NEW k \in 1..Len(log), NEW t, NEW i \in InDiffs(k, t)
  PROVE  \E p \in 1..k : /\ log[p].type = t /\ log[p].id = i
                         /\ Last(k, t, i) = log[p].row
                         /\ \A l \in (p + 1)..k : log[l].type # t \/ log[l].id # i
<1> DEFINE p == CHOOSE j \in Final(k) : log[j].type = t /\ log[j].id = i
<1>1. \E j \in Final(k) : log[j].type = t /\ log[j].id = i
  BY DEF InDiffs
<1>2. p \in Final(k) /\ log[p].type = t /\ log[p].id = i
  BY <1>1
<1>3. Last(k, t, i) = log[p].row
  BY DEF Last
<1> HIDE DEF p
<1> QED
  BY <1>2, <1>3 DEF Final

LEMMA NoRow ==
  ASSUME TypeOK, NEW k \in 1..Len(log), NEW t, NEW i, i \notin InDiffs(k, t)
  PROVE  \A j \in 1..k : log[j].type # t \/ log[j].id # i
<1> DEFINE T == {j \in 1..k : log[j].type = t /\ log[j].id = i}
<1> SUFFICES ASSUME T # {}
             PROVE  FALSE
  OBVIOUS
<1>1. k \in Nat /\ T \in SUBSET (1..k)
  OBVIOUS
<1>2. PICK p \in T : \A l \in T : l <= p
  BY <1>1, Greatest
<1>3. p \in 1..k /\ log[p].type = t /\ log[p].id = i
  BY <1>2
<1>4. \A l \in (p + 1)..k : l \in 1..k /\ ~(l <= p)
  BY <1>3
<1>5. \A l \in (p + 1)..k : log[l].type # t \/ log[l].id # i
  BY <1>2, <1>4
<1>6. p \in Final(k)
  BY <1>3, <1>5 DEF Final
<1> QED
  BY <1>3, <1>6 DEF InDiffs

(* The diffs that remain after a run are those beyond the first k. *)
LEMMA SuffixLog ==
  ASSUME TypeOK, NEW k \in 0..Len(log), log' = SubSeq(log, k + 1, Len(log))
  PROVE  /\ DOMAIN log' = 1..(Len(log) - k)
         /\ \A j \in DOMAIN log' : j + k \in DOMAIN log /\ log'[j] = log[j + k]
         /\ \A j \in DOMAIN log : j > k => j - k \in DOMAIN log' /\ log'[j - k] = log[j]
<1>1. Len(log) \in Nat /\ DOMAIN log = 1..Len(log) /\ log \in Seq(Change)
  BY DEF TypeOK
<1>2. DOMAIN log' = 1..(Len(log) - k) /\ \A j \in 1..(Len(log) - k) : log'[j] = log[j + k]
  BY <1>1
<1> QED
  BY <1>1, <1>2

LEMMA SuffixInLog ==
  ASSUME TypeOK, NEW k \in 0..Len(log), log' = SubSeq(log, k + 1, Len(log)),
         NEW t, NEW i, NEW from \in Nat, from >= k, InLog(t, i, from)
  PROVE  \E j \in DOMAIN log' : j > from - k /\ log'[j].type = t /\ log'[j].id = i
<1>1. PICK j \in DOMAIN log : j > from /\ log[j].type = t /\ log[j].id = i
  BY DEF InLog
<1>2. j \in Nat /\ k \in Nat
  BY DEF TypeOK
<1>3. j > k /\ j - k > from - k
  BY <1>1, <1>2
<1> QED
  BY <1>1, <1>3, SuffixLog

LEMMA SuffixLeadsUp ==
  ASSUME TypeOK, LogLeadsUp, NEW k \in 0..Len(log), log' = SubSeq(log, k + 1, Len(log)), up' = up
  PROVE  LogLeadsUp'
<1> SUFFICES ASSUME NEW j \in DOMAIN log'
             PROVE  /\ log'[j].row.ver > 0
                    /\ \/ log'[j].row = up[log'[j].type][log'[j].id]
                       \/ /\ log'[j].row.ver < up[log'[j].type][log'[j].id].ver
                          /\ \E l \in DOMAIN log' : l > j /\ log'[l].type = log'[j].type
                                                      /\ log'[l].id = log'[j].id
  BY DEF LogLeadsUp, InLog
<1>1. j \in Nat /\ k \in Nat /\ j + k \in DOMAIN log /\ log'[j] = log[j + k]
  BY SuffixLog DEF TypeOK
<1> DEFINE e == log[j + k]
<1>2. e.row.ver > 0 /\ (e.row = up[e.type][e.id] \/ (e.row.ver < up[e.type][e.id].ver /\ InLog(e.type, e.id, j + k)))
  BY <1>1 DEF LogLeadsUp
<1>3. ASSUME InLog(e.type, e.id, j + k)
      PROVE  \E l \in DOMAIN log' : l > j /\ log'[l].type = e.type /\ log'[l].id = e.id
  <2>1. PICK l \in DOMAIN log : l > j + k /\ log[l].type = e.type /\ log[l].id = e.id
    BY <1>3 DEF InLog
  <2>2. l \in Nat /\ l > k /\ l - k > j
    BY <1>1, <2>1 DEF TypeOK
  <2>3. l - k \in DOMAIN log' /\ log'[l - k] = log[l]
    BY <2>2, SuffixLog
  <2> QED
    BY <2>1, <2>2, <2>3
<1>4. log'[j] = e
  BY <1>1
<1> HIDE DEF e
<1> QED
  BY <1>2, <1>3, <1>4
(* A run, seen from one element: the row it leaves is none, the upstream   *)
(* row, or an older one that a later diff replaces.  new is the row after  *)
(* the run, kept whether the element passed the version check and the      *)
(* extent filter; the filter keeps whatever is in the root.                *)
LEMMA RowLeadsUp ==
  ASSUME TypeOK, LogLeadsUp, RootLeadsUp, NEW k \in 1..Len(log),
         NEW t \in Types, NEW i \in DOMAIN up[t], NEW STATE new, NEW STATE kept,
         kept => i \in Fresh(k, t),
         i \in Fresh(k, t) /\ IsAlive(root[t][i]) => kept,
         new = IF kept THEN Stored(Last(k, t, i)) ELSE root[t][i]
  PROVE  \/ new = Absent
         \/ /\ IsAlive(new)
            /\ new = up[t][i] \/ (new.ver < up[t][i].ver /\ InLog(t, i, k))
<1>1. /\ up[t][i].ver \in Nat /\ root[t][i].ver \in Nat
      /\ DOMAIN log = 1..Len(log) /\ Len(log) \in Nat
  BY RowsTyped DEF TypeOK
<1>2. \/ root[t][i] = Absent
      \/ /\ IsAlive(root[t][i])
         /\ root[t][i] = up[t][i] \/ (root[t][i].ver < up[t][i].ver /\ InLog(t, i, 0))
  BY DEF RootLeadsUp, Types
<1>3. CASE i \notin InDiffs(k, t)
  <2>1. new = root[t][i]
    BY <1>3 DEF Fresh
  <2>2. InLog(t, i, 0) => InLog(t, i, k)
    BY <1>1, <1>3, NoRow DEF InLog
  <2> QED
    BY <1>2, <2>1, <2>2
<1>4. CASE i \in InDiffs(k, t)
  <2>1. PICK p \in 1..k : /\ log[p].type = t /\ log[p].id = i
                          /\ Last(k, t, i) = log[p].row
                          /\ \A l \in (p + 1)..k : log[l].type # t \/ log[l].id # i
    BY <1>4, LastRow
  <2> DEFINE row == log[p].row
  <2>2. p \in DOMAIN log /\ row.ver \in Nat
    BY <1>1, RowsTyped
  <2>3. row.ver > 0 /\ (row = up[t][i] \/ (row.ver < up[t][i].ver /\ InLog(t, i, p)))
    BY <2>1, <2>2 DEF LogLeadsUp
  <2>4. InLog(t, i, p) => InLog(t, i, k)
    BY <1>1, <2>1 DEF InLog
  <2>5. Last(k, t, i) = row
    BY <2>1
  <2> HIDE DEF row
  <2>6. CASE kept
    <3>1. new = Stored(row)
      BY <2>5, <2>6
    <3> QED
      BY <2>3, <2>4, <3>1 DEF Stored
  <2>7. CASE ~kept
    <3>1. new = root[t][i]
      BY <2>7
    <3>2. CASE root[t][i] = Absent
      BY <3>1, <3>2
    <3>3. CASE IsAlive(root[t][i])
      <4>1. ~(row.ver > root[t][i].ver)
        BY <1>4, <2>5, <2>7, <3>3 DEF Fresh
      <4>2. root[t][i] = up[t][i] \/ root[t][i].ver < up[t][i].ver
        BY <1>2, <3>3 DEF Absent, IsAlive
      <4>3. ASSUME root[t][i].ver < up[t][i].ver
            PROVE  InLog(t, i, k)
        <5>1. row # up[t][i]
          BY <1>1, <2>2, <4>1, <4>3
        <5> QED
          BY <2>3, <2>4, <5>1
      <4> QED
        BY <3>1, <3>3, <4>2, <4>3
    <3> QED
      BY <1>2, <3>2, <3>3
  <2> QED
    BY <2>6, <2>7
<1> QED
  BY <1>3, <1>4

(* The same for a node inside the extent: it is there after the run, or a  *)
(* later diff still brings it.                                             *)
LEMMA NodeArrives ==
  ASSUME TypeOK, LogLeadsUp, RootLeadsUp, NodesArrive, built, NEW k \in 1..Len(log),
         NEW i \in Nodes, up.n[i].body \in Extent
  PROVE  IsAlive(Applied(Batch(k)).n[i]) \/ InLog("n", i, k)
<1> DEFINE b == Batch(k)
<1>1. DOMAIN log = 1..Len(log) /\ Len(log) \in Nat
  BY DEF TypeOK
<1>2. i \in DOMAIN up["n"] /\ up["n"] = up.n /\ root["n"] = root.n
  BY DEF TypeOK, Data
<1>3. DOMAIN b.n = Fresh(k, "n") /\ \A x \in Fresh(k, "n") : b.n[x] = Last(k, "n", x)
  BY DEF Batch
<1>4. i \in Known.n \/ InLog("n", i, 0)
  BY DEF NodesArrive
<1>5. Applied(b).n[i] = IF i \in KeptNodes(b) THEN Stored(b.n[i]) ELSE root.n[i]
  BY DEF Applied
<1>6. i \in Known.n <=> IsAlive(root.n[i])
  BY DEF Known
<1>7. IsAlive(up.n[i])
  BY BatchAssumption DEF IsAlive
<1>8. i \in KeptNodes(b) <=> i \in Fresh(k, "n") /\ (i \in Known.n \/ Last(k, "n", i).body \in Extent)
  BY <1>3 DEF KeptNodes
<1> HIDE DEF b
<1>9. CASE i \notin InDiffs(k, "n")
  <2>1. Applied(b).n[i] = root.n[i]
    BY <1>5, <1>8, <1>9 DEF Fresh
  <2>2. InLog("n", i, 0) => InLog("n", i, k)
    BY <1>1, <1>9, NoRow DEF InLog
  <2> QED
    BY <1>4, <1>6, <2>1, <2>2 DEF b
<1>10. CASE i \in InDiffs(k, "n")
  <2>1. PICK p \in 1..k : /\ log[p].type = "n" /\ log[p].id = i
                          /\ Last(k, "n", i) = log[p].row
                          /\ \A l \in (p + 1)..k : log[l].type # "n" \/ log[l].id # i
    BY <1>10, LastRow
  <2> DEFINE row == log[p].row
  <2>2. p \in DOMAIN log /\ row.ver \in Nat /\ root.n[i].ver \in Nat /\ up.n[i].ver \in Nat
    BY <1>1, <1>2, RowsTyped DEF Types
  <2>3. row.ver > 0 /\ (row = up.n[i] \/ (row.ver < up.n[i].ver /\ InLog("n", i, p)))
    BY <1>2, <2>1, <2>2 DEF LogLeadsUp
  <2>4. InLog("n", i, p) => InLog("n", i, k)
    BY <1>1, <2>1 DEF InLog
  <2>5. Last(k, "n", i) = row
    BY <2>1
  <2> HIDE DEF row
  <2>6. CASE InLog("n", i, p)
    BY <2>4, <2>6
  <2>7. CASE row = up.n[i] /\ i \in Fresh(k, "n")
    <3>1. i \in KeptNodes(b)
      BY <1>8, <2>5, <2>7
    <3>2. b.n[i] = row
      BY <1>3, <2>5, <2>7
    <3> QED
      BY <1>5, <1>7, <2>7, <3>1, <3>2 DEF Stored, b
  <2>8. CASE i \notin Fresh(k, "n")
    <3>1. Applied(b).n[i] = root.n[i]
      BY <1>5, <1>8, <2>8
    <3>2. ~(row.ver > root.n[i].ver)
      BY <1>2, <1>10, <2>5, <2>8 DEF Fresh
    <3>3. root.n[i] # Absent
      BY <2>2, <2>3, <3>2 DEF Absent
    <3>4. IsAlive(root.n[i])
      BY <1>2, <3>3 DEF RootLeadsUp
    <3> QED
      BY <3>1, <3>4 DEF b
  <2> QED
    BY <2>3, <2>6, <2>7, <2>8
<1> QED
  BY <1>9, <1>10
LEMMA RunLeadsUp ==
  ASSUME UpstreamInv, RunOnce
  PROVE  LogLeadsUp' /\ RootLeadsUp' /\ NodesArrive'
<1> PICK k \in 1..Len(log) : Apply(Batch(k)) /\ log' = SubSeq(log, k + 1, Len(log))
  BY DEF RunOnce
<1> DEFINE b == Batch(k)
<1>1. root' = Applied(b) /\ up' = up /\ built' = built /\ built
  BY DEF Apply, RunOnce
<1>2. TypeOK /\ LogLeadsUp /\ RootLeadsUp /\ NodesArrive /\ k \in 0..Len(log) /\ k \in Nat
  BY DEF UpstreamInv
<1>3. LogLeadsUp'
  BY <1>1, <1>2, SuffixLeadsUp
<1>4. ASSUME NEW t, NEW i, InLog(t, i, k)
      PROVE  InLog(t, i, 0)'
  <2>1. \E j \in DOMAIN log' : j > k - k /\ log'[j].type = t /\ log'[j].id = i
    BY <1>2, <1>4, SuffixInLog
  <2> QED
    BY <1>2, <2>1 DEF InLog
<1>5. Known.n = {i \in Nodes : IsAlive(root.n[i])} /\ Known.w = {i \in Ways : IsAlive(root.w[i])}
        /\ Known.r = {i \in Relations : IsAlive(root.r[i])}
  BY DEF Known
<1>6. /\ DOMAIN up["n"] = Nodes /\ DOMAIN up["w"] = Ways /\ DOMAIN up["r"] = Relations
  BY <1>2 DEF TypeOK, Data
<1>7. RootLeadsUp'
  <2> SUFFICES ASSUME NEW t \in Types, NEW i \in DOMAIN up[t]
               PROVE  \/ Applied(b)[t][i] = Absent
                      \/ /\ IsAlive(Applied(b)[t][i])
                         /\ \/ Applied(b)[t][i] = up[t][i]
                            \/ Applied(b)[t][i].ver < up[t][i].ver /\ InLog(t, i, 0)'
    BY <1>1 DEF RootLeadsUp, Types
  <2>1. ASSUME t = "n"
        PROVE  /\ i \in KeptNodes(b) => i \in Fresh(k, t)
               /\ i \in Fresh(k, t) /\ IsAlive(root[t][i]) => i \in KeptNodes(b)
               /\ Applied(b)[t][i] = IF i \in KeptNodes(b) THEN Stored(Last(k, t, i)) ELSE root[t][i]
    <3>1. i \in Nodes
      BY <1>6, <2>1
    <3>2. DOMAIN b.n = Fresh(k, "n") /\ \A x \in Fresh(k, "n") : b.n[x] = Last(k, "n", x)
      BY DEF Batch
    <3> HIDE DEF b
    <3>3. KeptNodes(b) \subseteq Fresh(k, "n")
      BY <3>2 DEF KeptNodes
    <3>4. i \in Fresh(k, "n") /\ IsAlive(root.n[i]) => i \in KeptNodes(b)
      BY <1>5, <3>1, <3>2 DEF KeptNodes
    <3>5. Applied(b).n[i] = IF i \in KeptNodes(b) THEN Stored(b.n[i]) ELSE root.n[i]
      BY <3>1 DEF Applied
    <3> QED
      BY <2>1, <3>2, <3>3, <3>4, <3>5
  <2>2. ASSUME t = "w"
        PROVE  /\ i \in KeptWays(b) => i \in Fresh(k, t)
               /\ i \in Fresh(k, t) /\ IsAlive(root[t][i]) => i \in KeptWays(b)
               /\ Applied(b)[t][i] = IF i \in KeptWays(b) THEN Stored(Last(k, t, i)) ELSE root[t][i]
    <3>1. i \in Ways
      BY <1>6, <2>2
    <3>2. DOMAIN b.w = Fresh(k, "w") /\ \A x \in Fresh(k, "w") : b.w[x] = Last(k, "w", x)
      BY DEF Batch
    <3> HIDE DEF b
    <3>3. KeptWays(b) \subseteq Fresh(k, "w")
      BY <3>2 DEF KeptWays
    <3>4. i \in Fresh(k, "w") /\ IsAlive(root.w[i]) => i \in KeptWays(b)
      BY <1>5, <3>1, <3>2 DEF KeptWays
    <3>5. Applied(b).w[i] = IF i \in KeptWays(b) THEN Stored(b.w[i]) ELSE root.w[i]
      BY <3>1 DEF Applied
    <3> QED
      BY <2>2, <3>2, <3>3, <3>4, <3>5
  <2>3. ASSUME t = "r"
        PROVE  /\ i \in KeptRelations(b) => i \in Fresh(k, t)
               /\ i \in Fresh(k, t) /\ IsAlive(root[t][i]) => i \in KeptRelations(b)
               /\ Applied(b)[t][i] = IF i \in KeptRelations(b) THEN Stored(Last(k, t, i)) ELSE root[t][i]
    <3>1. i \in Relations
      BY <1>6, <2>3
    <3>2. DOMAIN b.r = Fresh(k, "r") /\ \A x \in Fresh(k, "r") : b.r[x] = Last(k, "r", x)
      BY DEF Batch
    <3> HIDE DEF b
    <3>3. KeptRelations(b) \subseteq Fresh(k, "r")
      BY <3>2 DEF KeptRelations
    <3>4. i \in Fresh(k, "r") /\ IsAlive(root.r[i]) => i \in KeptRelations(b)
      BY <1>5, <3>1, <3>2 DEF KeptRelations
    <3>5. Applied(b).r[i] = IF i \in KeptRelations(b) THEN Stored(b.r[i]) ELSE root.r[i]
      BY <3>1 DEF Applied
    <3> QED
      BY <2>3, <3>2, <3>3, <3>4, <3>5
  <2> DEFINE kept == \/ t = "n" /\ i \in KeptNodes(b)
                     \/ t = "w" /\ i \in KeptWays(b)
                     \/ t = "r" /\ i \in KeptRelations(b)
             new == Applied(b)[t][i]
  <2>4. /\ kept => i \in Fresh(k, t)
        /\ i \in Fresh(k, t) /\ IsAlive(root[t][i]) => kept
        /\ new = IF kept THEN Stored(Last(k, t, i)) ELSE root[t][i]
    <3>1. CASE t = "n"
      BY <2>1, <3>1
    <3>2. CASE t = "w"
      BY <2>2, <3>2
    <3>3. CASE t = "r"
      BY <2>3, <3>3
    <3> QED
      BY <3>1, <3>2, <3>3 DEF Types
  <2> HIDE DEF kept, new
  <2>5. \/ new = Absent
        \/ /\ IsAlive(new)
           /\ new = up[t][i] \/ (new.ver < up[t][i].ver /\ InLog(t, i, k))
    BY <1>2, <2>4, RowLeadsUp
  <2> QED
    BY <1>4, <2>5 DEF new
<1>8. NodesArrive'
  <2> SUFFICES ASSUME NEW i \in Nodes, up.n[i].body \in Extent
               PROVE  IsAlive(Applied(b).n[i]) \/ InLog("n", i, 0)'
    BY <1>1 DEF NodesArrive, Known
  <2> QED
    BY <1>1, <1>2, <1>4, NodeArrives
<1> QED
  BY <1>3, <1>7, <1>8

(* A build takes rows from upstream, and all nodes inside the extent. *)
LEMMA BuildLeadsUp ==
  ASSUME UpstreamInv, Build
  PROVE  LogLeadsUp' /\ RootLeadsUp' /\ NodesArrive'
<1>1. TypeOK /\ LogLeadsUp /\ up' = up /\ root' = Extract
  BY DEF UpstreamInv, Build
<1>2. PICK s \in 0..Len(log) : log' = SubSeq(log, s + 1, Len(log))
  BY DEF Build
<1>3. LogLeadsUp'
  BY <1>1, <1>2, SuffixLeadsUp
<1>4. /\ \A i \in Nodes : Extract.n[i] \in {Stored(up.n[i]), Absent}
      /\ \A i \in Ways : Extract.w[i] \in {Stored(up.w[i]), Absent}
      /\ \A i \in Relations : Extract.r[i] \in {Stored(up.r[i]), Absent}
  BY DEF Extract
<1>5. ASSUME NEW t \in Types, NEW i \in DOMAIN up[t]
      PROVE  Extract[t][i] \in {Stored(up[t][i]), Absent}
  <2>1. DOMAIN up["n"] = Nodes /\ DOMAIN up["w"] = Ways /\ DOMAIN up["r"] = Relations
    BY <1>1 DEF TypeOK, Data
  <2>2. CASE t = "n"
    BY <1>4, <2>1, <2>2
  <2>3. CASE t = "w"
    BY <1>4, <2>1, <2>3
  <2>4. CASE t = "r"
    BY <1>4, <2>1, <2>4
  <2> QED
    BY <2>2, <2>3, <2>4 DEF Types
<1>6. RootLeadsUp'
  <2> SUFFICES ASSUME NEW t \in Types, NEW i \in DOMAIN up[t]
               PROVE  Extract[t][i] = Absent \/ (IsAlive(Extract[t][i]) /\ Extract[t][i] = up[t][i])
    BY <1>1 DEF RootLeadsUp, Types
  <2>1. Stored(up[t][i]) = Absent \/ (IsAlive(up[t][i]) /\ Stored(up[t][i]) = up[t][i])
    BY DEF Stored
  <2> QED
    BY <1>5, <2>1
<1>7. NodesArrive'
  <2> SUFFICES ASSUME NEW i \in Nodes, up.n[i].body \in Extent
               PROVE  IsAlive(Extract.n[i])
    BY <1>1 DEF NodesArrive, Known
  <2>1. IsAlive(up.n[i]) /\ i \in ExtractNodes
    BY BatchAssumption DEF IsAlive, ExtractNodes, Inside
  <2> QED
    BY <2>1 DEF Extract, Stored
<1> QED
  BY <1>3, <1>6, <1>7

(* A change appends the row it makes current. *)
LEMMA PublishLeadsUp ==
  ASSUME UpstreamInv, NEW t \in Types, NEW i \in DOMAIN up[t], NEW body, Publish(t, i, body)
  PROVE  LogLeadsUp' /\ RootLeadsUp' /\ NodesArrive'
<1> DEFINE row == [ver |-> up[t][i].ver + 1, body |-> body]
           entry == [type |-> t, id |-> i, row |-> row]
<1>1. TypeOK /\ LogLeadsUp /\ RootLeadsUp /\ NodesArrive
  BY DEF UpstreamInv
<1>2. log' = Append(log, entry) /\ up' = [up EXCEPT ![t][i] = row] /\ root' = root /\ built' = built
  BY DEF Publish
<1>3. Len(log) \in Nat /\ DOMAIN log = 1..Len(log) /\ log \in Seq(Change)
  BY <1>1 DEF TypeOK
<1>4. row.ver \in Nat /\ row.ver > 0 /\ row.ver > up[t][i].ver /\ up[t][i].ver \in Nat
  BY <1>1, RowsTyped
<1> HIDE DEF row
<1>5. /\ DOMAIN log' = 1..(Len(log) + 1)
      /\ log'[Len(log) + 1] = entry
      /\ \A j \in DOMAIN log : j \in DOMAIN log' /\ log'[j] = log[j] /\ j < Len(log) + 1
  BY <1>2, <1>3
<1>6. entry.type = t /\ entry.id = i /\ entry.row = row
  OBVIOUS
<1> HIDE DEF entry
<1>7. ASSUME NEW s \in Types
      PROVE  /\ DOMAIN up'[s] = DOMAIN up[s]
             /\ \A x \in DOMAIN up[s] : up'[s][x] = IF s = t /\ x = i THEN row ELSE up[s][x]
  <2>1. DOMAIN up = Types
    BY <1>1 DEF TypeOK, Data, Types
  <2>2. up'[s] = IF s = t THEN [up[s] EXCEPT ![i] = row] ELSE up[s]
    BY <1>2, <2>1
  <2> QED
    BY <2>2
<1>8. ASSUME NEW from \in 0..Len(log)
      PROVE  \E l \in DOMAIN log' : l > from /\ log'[l].type = t /\ log'[l].id = i
  BY <1>3, <1>5, <1>6
<1>9. ASSUME NEW s, NEW x, NEW from, InLog(s, x, from)
      PROVE  \E l \in DOMAIN log' : l > from /\ log'[l].type = s /\ log'[l].id = x
  BY <1>5, <1>9 DEF InLog
<1>10. LogLeadsUp'
  <2> SUFFICES ASSUME NEW j \in DOMAIN log'
               PROVE  /\ log'[j].row.ver > 0
                      /\ \/ log'[j].row = up'[log'[j].type][log'[j].id]
                         \/ /\ log'[j].row.ver < up'[log'[j].type][log'[j].id].ver
                            /\ \E l \in DOMAIN log' : l > j /\ log'[l].type = log'[j].type
                                                        /\ log'[l].id = log'[j].id
    BY DEF LogLeadsUp, InLog
  <2>1. CASE j = Len(log) + 1
    <3>1. up'[t][i] = row
      BY <1>7
    <3> QED
      BY <1>4, <1>5, <1>6, <2>1, <3>1
  <2>2. CASE j \in DOMAIN log
    <3> DEFINE s == log[j].type
               x == log[j].id
    <3>1. log'[j] = log[j] /\ s \in Types /\ x \in DOMAIN up[s] /\ log[j].row.ver \in Nat
      BY <1>1, <1>5, <2>2, RowsTyped
    <3>2. /\ log[j].row.ver > 0
          /\ log[j].row = up[s][x] \/ (log[j].row.ver < up[s][x].ver /\ InLog(s, x, j))
      BY <1>1, <2>2 DEF LogLeadsUp
    <3>3. CASE s = t /\ x = i
      <4>1. up'[s][x] = row
        BY <1>7, <3>1, <3>3
      <4>2. log[j].row.ver < row.ver
        BY <1>4, <3>1, <3>2, <3>3
      <4>3. \E l \in DOMAIN log' : l > j /\ log'[l].type = t /\ log'[l].id = i
        BY <1>3, <1>8, <2>2
      <4> QED
        BY <3>1, <3>2, <3>3, <4>1, <4>2, <4>3
    <3>4. CASE ~(s = t /\ x = i)
      <4>1. up'[s][x] = up[s][x]
        BY <1>7, <3>1, <3>4
      <4>2. InLog(s, x, j) => \E l \in DOMAIN log' : l > j /\ log'[l].type = s /\ log'[l].id = x
        BY <1>5 DEF InLog
      <4> QED
        BY <3>1, <3>2, <4>1, <4>2
    <3> QED
      BY <3>3, <3>4
  <2> QED
    BY <1>3, <1>5, <2>1, <2>2
<1>11. RootLeadsUp'
  <2> SUFFICES ASSUME NEW s \in Types, NEW x \in DOMAIN up[s], root[s][x] # Absent
               PROVE  /\ IsAlive(root[s][x])
                      /\ \/ root[s][x] = up'[s][x]
                         \/ /\ root[s][x].ver < up'[s][x].ver
                            /\ \E l \in DOMAIN log' : l > 0 /\ log'[l].type = s /\ log'[l].id = x
    BY <1>2, <1>7 DEF RootLeadsUp, InLog, Types
  <2>1. /\ IsAlive(root[s][x])
        /\ root[s][x] = up[s][x] \/ (root[s][x].ver < up[s][x].ver /\ InLog(s, x, 0))
    BY <1>1 DEF RootLeadsUp, Types
  <2>2. CASE s = t /\ x = i
    <3>1. up'[s][x] = row
      BY <1>7, <2>2
    <3>2. root[s][x].ver < row.ver
      BY <1>1, <1>4, <2>1, <2>2, RowsTyped
    <3>3. \E l \in DOMAIN log' : l > 0 /\ log'[l].type = t /\ log'[l].id = i
      BY <1>3, <1>8
    <3> QED
      BY <2>1, <2>2, <3>1, <3>2, <3>3
  <2>3. CASE ~(s = t /\ x = i)
    <3>1. up'[s][x] = up[s][x]
      BY <1>7, <2>3
    <3> QED
      BY <1>9, <2>1, <3>1
  <2> QED
    BY <2>2, <2>3
<1>12. NodesArrive'
  <2> SUFFICES ASSUME built, NEW x \in Nodes, up'.n[x].body \in Extent, x \notin Known.n
               PROVE  \E l \in DOMAIN log' : l > 0 /\ log'[l].type = "n" /\ log'[l].id = x
    BY <1>2 DEF NodesArrive, InLog, Known
  <2>1. CASE t = "n" /\ x = i
    BY <1>3, <1>8, <2>1
  <2>2. CASE ~(t = "n" /\ x = i)
    <3>1. x \in DOMAIN up["n"] /\ "n" \in Types
      BY <1>1 DEF TypeOK, Data, Types
    <3>2. up'["n"][x] = up["n"][x]
      BY <1>7, <2>2, <3>1
    <3>3. InLog("n", x, 0)
      BY <1>1, <3>2 DEF NodesArrive
    <3> QED
      BY <1>9, <3>3
  <2> QED
    BY <2>1, <2>2
<1> QED
  BY <1>10, <1>11, <1>12
LEMMA InitLeadsUp == Init => UpstreamInv
<1> SUFFICES ASSUME Init
             PROVE  UpstreamInv
  OBVIOUS
<1>1. TypeOK
  BY InitTypes
<1>2. LogLeadsUp
  BY DEF Init, LogLeadsUp
<1>3. RootLeadsUp
  <2> SUFFICES ASSUME NEW t \in Types, NEW i \in DOMAIN up[t]
               PROVE  root[t][i] = Absent
    BY DEF RootLeadsUp, Types
  <2>1. DOMAIN up["n"] = Nodes /\ DOMAIN up["w"] = Ways /\ DOMAIN up["r"] = Relations
    BY <1>1 DEF TypeOK, Data
  <2>2. CASE t = "n"
    BY <2>1, <2>2 DEF Init, Empty
  <2>3. CASE t = "w"
    BY <2>1, <2>3 DEF Init, Empty
  <2>4. CASE t = "r"
    BY <2>1, <2>4 DEF Init, Empty
  <2> QED
    BY <2>2, <2>3, <2>4 DEF Types
<1>4. NodesArrive
  BY DEF Init, NodesArrive
<1> QED
  BY <1>1, <1>2, <1>3, <1>4 DEF UpstreamInv

LEMMA StepLeadsUp ==
  ASSUME UpstreamInv, [Next]_vars
  PROVE  UpstreamInv'
<1>1. TypeOK'
  BY StepTypes DEF UpstreamInv
<1>2. ASSUME UNCHANGED <<up, log, built, root>>
      PROVE  LogLeadsUp' /\ RootLeadsUp' /\ NodesArrive'
  BY <1>2 DEF UpstreamInv, LogLeadsUp, RootLeadsUp, NodesArrive, InLog, Known
<1>3. CASE PublishSome
  <2>1. DOMAIN up["n"] = Nodes /\ DOMAIN up["w"] = Ways /\ DOMAIN up["r"] = Relations
    BY DEF UpstreamInv, TypeOK, Data
  <2>2. \E t \in Types : \E i \in DOMAIN up[t] : \E body : Publish(t, i, body)
    BY <1>3, <2>1 DEF PublishSome, Types
  <2> QED
    BY <1>1, <2>2, PublishLeadsUp DEF UpstreamInv
<1>4. CASE Build
  BY <1>1, <1>4, BuildLeadsUp DEF UpstreamInv
<1>5. CASE RunOnce
  BY <1>1, <1>5, RunLeadsUp DEF UpstreamInv
<1>6. CASE Compact
  BY <1>1, <1>2, <1>6 DEF Compact, UpstreamInv
<1>7. CASE UNCHANGED vars
  BY <1>1, <1>2, <1>7 DEF vars, UpstreamInv
<1> QED
  BY <1>3, <1>4, <1>5, <1>6, <1>7 DEF Next

(* Whatever the diffs, from wherever they are replayed and however they    *)
(* are grouped into runs: with none left, the rows of the root are the     *)
(* upstream rows and no node inside the extent is missing                  *)
(* (_drop_stale_versions and _extent_filter in update/updater.py).         *)
THEOREM RootFollowsUpstream == Spec => []FollowsUpstream
<1>1. Init => UpstreamInv
  BY InitLeadsUp
<1>2. UpstreamInv /\ [Next]_vars => UpstreamInv'
  BY StepLeadsUp
<1>3. UpstreamInv => FollowsUpstream
  <2> SUFFICES ASSUME UpstreamInv, built, log = <<>>
               PROVE  /\ \A i \in Nodes : i \in Known.n => root.n[i] = up.n[i]
                      /\ \A i \in Ways : i \in Known.w => root.w[i] = up.w[i]
                      /\ \A i \in Relations : i \in Known.r => root.r[i] = up.r[i]
                      /\ \A i \in Nodes : up.n[i].body \in Extent => i \in Known.n
    BY DEF FollowsUpstream
  <2>1. \A t, i : ~InLog(t, i, 0)
    BY DEF InLog
  <2>2. ASSUME NEW t \in Types, NEW i \in DOMAIN up[t], IsAlive(root[t][i])
        PROVE  root[t][i] = up[t][i]
    BY <2>1, <2>2 DEF UpstreamInv, RootLeadsUp, Types, IsAlive, Absent
  <2>3. DOMAIN up["n"] = Nodes /\ DOMAIN up["w"] = Ways /\ DOMAIN up["r"] = Relations
    BY DEF UpstreamInv, TypeOK, Data
  <2>4. \A i \in Nodes : i \in Known.n => root.n[i] = up.n[i]
    BY <2>2, <2>3 DEF Known, Types
  <2>5. \A i \in Ways : i \in Known.w => root.w[i] = up.w[i]
    BY <2>2, <2>3 DEF Known, Types
  <2>6. \A i \in Relations : i \in Known.r => root.r[i] = up.r[i]
    BY <2>2, <2>3 DEF Known, Types
  <2>7. \A i \in Nodes : up.n[i].body \in Extent => i \in Known.n
    BY <2>1 DEF UpstreamInv, NodesArrive
  <2> QED
    BY <2>4, <2>5, <2>6, <2>7
<1> QED
  BY <1>1, <1>2, <1>3, PTL DEF Spec
=============================================================================
