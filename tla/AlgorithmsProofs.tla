--------------------------- MODULE AlgorithmsProofs ---------------------------
(***************************************************************************)
(* The algorithms for every input: for any ids, parts and sequence of      *)
(* compactions CompactionKeepsParts; for any finite data, with cycles or   *)
(* not, RecursionReachesAll and RecursionFindsParents; for any history     *)
(* BuildAnswers and BuildScansAgree; for any nodes, boxes and depths       *)
(* ReadsFindRows; for any order HilbertKeysAreACurve.  JobInv says what a  *)
(* computation holds at each stage; the rest are lemmas about operators,   *)
(* by induction on numbers in the form of SetInduction.                    *)
(***************************************************************************)
EXTENDS Algorithms, ByIdParts, FiniteSetTheorems, WellFoundedInduction, TLAPS

-----------------------------------------------------------------------------
(* Facts about numbers. *)

(* A finite set of numbers has a least and a greatest one: the smallest of *)
(* its end segments, which are ordered by inclusion, holds one number.     *)
LEMMA MaxIdDef ==
  ASSUME NEW S \in SUBSET Int, IsFiniteSet(S), S # {}
  PROVE  MaxId(S) \in S /\ \A k \in S : k <= MaxId(S)
<1> DEFINE Above(m) == {k \in S : m <= k}
           T == {Above(m) : m \in S}
<1>1. T \subseteq FiniteSubsetsOf(S) /\ T # {}
  <2>1. ASSUME NEW m \in S PROVE Above(m) \in FiniteSubsetsOf(S)
    <3>1. Above(m) \in SUBSET S
      OBVIOUS
    <3>2. IsFiniteSet(Above(m))
      BY <3>1, FS_Subset
    <3> QED BY <3>1, <3>2 DEF FiniteSubsetsOf
  <2> QED BY <2>1
<1>2. IsWellFoundedOn(StrictSubsetOrdering(S), FiniteSubsetsOf(S))
  BY FS_StrictSubsetOrderingWellFounded
<1> HIDE DEF T
<1>3. PICK A \in T : \A B \in T : <<B, A>> \notin StrictSubsetOrdering(S)
  BY <1>1, <1>2, WFMin
<1>4. PICK m \in S : A = Above(m)
  BY <1>3 DEF T
<1>5. ASSUME NEW k \in S PROVE k <= m
  <2> SUFFICES ASSUME m < k PROVE FALSE
    OBVIOUS
  <2>1. Above(k) \in T
    BY DEF T
  <2>2. Above(k) \subseteq Above(m) /\ m \in Above(m) /\ m \notin Above(k)
    <3>1. (\A x \in S : k <= x => m <= x) /\ m <= m /\ ~(k <= m)
      OBVIOUS
    <3> QED BY <3>1
  <2>3. <<Above(k), A>> \in (SUBSET S) \X (SUBSET S) /\ Above(k) # A /\ Above(k) \subseteq A
    BY <1>4, <2>2
  <2>4. <<Above(k), A>> \in StrictSubsetOrdering(S)
    BY <2>3 DEF StrictSubsetOrdering
  <2> QED BY <1>3, <2>1, <2>4
<1> QED BY <1>5 DEF MaxId

LEMMA MinIdDef ==
  ASSUME NEW S \in SUBSET Int, IsFiniteSet(S), S # {}
  PROVE  MinId(S) \in S /\ \A k \in S : MinId(S) <= k
<1> DEFINE Below(m) == {k \in S : k <= m}
           T == {Below(m) : m \in S}
<1>1. T \subseteq FiniteSubsetsOf(S) /\ T # {}
  <2>1. ASSUME NEW m \in S PROVE Below(m) \in FiniteSubsetsOf(S)
    <3>1. Below(m) \in SUBSET S
      OBVIOUS
    <3>2. IsFiniteSet(Below(m))
      BY <3>1, FS_Subset
    <3> QED BY <3>1, <3>2 DEF FiniteSubsetsOf
  <2> QED BY <2>1
<1>2. IsWellFoundedOn(StrictSubsetOrdering(S), FiniteSubsetsOf(S))
  BY FS_StrictSubsetOrderingWellFounded
<1> HIDE DEF T
<1>3. PICK A \in T : \A B \in T : <<B, A>> \notin StrictSubsetOrdering(S)
  BY <1>1, <1>2, WFMin
<1>4. PICK m \in S : A = Below(m)
  BY <1>3 DEF T
<1>5. ASSUME NEW k \in S PROVE m <= k
  <2> SUFFICES ASSUME k < m PROVE FALSE
    OBVIOUS
  <2>1. Below(k) \in T
    BY DEF T
  <2>2. Below(k) \subseteq Below(m) /\ m \in Below(m) /\ m \notin Below(k)
    <3>1. (\A x \in S : x <= k => x <= m) /\ m <= m /\ ~(m <= k)
      OBVIOUS
    <3> QED BY <3>1
  <2>3. <<Below(k), A>> \in (SUBSET S) \X (SUBSET S) /\ Below(k) # A /\ Below(k) \subseteq A
    BY <1>4, <2>2
  <2>4. <<Below(k), A>> \in StrictSubsetOrdering(S)
    BY <2>3 DEF StrictSubsetOrdering
  <2> QED BY <1>3, <2>1, <2>4
<1> QED BY <1>5 DEF MinId

-----------------------------------------------------------------------------
(* Facts about parts. *)

(* Lists of parts: finitely many, of ids. *)
IsList(parts) ==
  /\ parts \in [DOMAIN parts -> SUBSET PartIds]
  /\ DOMAIN parts \subseteq Nat /\ IsFiniteSet(DOMAIN parts)

(* The least and the greatest id of a part. *)
LEMMA PartEnds ==
  ASSUME NEW parts, IsList(parts), NEW i \in DOMAIN parts, parts[i] # {}
  PROVE  /\ parts[i] \subseteq Int
         /\ MinId(parts[i]) \in parts[i] /\ MaxId(parts[i]) \in parts[i]
         /\ \A id \in parts[i] : MinId(parts[i]) <= id /\ id <= MaxId(parts[i])
<1>1. parts[i] \in SUBSET Int /\ IsFiniteSet(parts[i])
  BY PartsAssumption, FS_Subset DEF IsList
<1> QED BY <1>1, MinIdDef, MaxIdDef

(* Parts are apart if their ids are, and the other way round. *)
LEMMA PartedDef ==
  ASSUME NEW parts, IsList(parts)
  PROVE  IsParted(parts) <=>
           /\ \A i \in DOMAIN parts : parts[i] # {}
           /\ \A i, j \in DOMAIN parts : i < j => \A x \in parts[i], y \in parts[j] : x < y
<1>1. ASSUME \A i \in DOMAIN parts : parts[i] # {}, NEW i \in DOMAIN parts, NEW j \in DOMAIN parts
      PROVE  MaxId(parts[i]) < MinId(parts[j]) <=> \A x \in parts[i], y \in parts[j] : x < y
  <2>1. /\ parts[i] \subseteq Int /\ MaxId(parts[i]) \in parts[i]
        /\ \A id \in parts[i] : id <= MaxId(parts[i])
    BY <1>1, PartEnds
  <2>2. /\ parts[j] \subseteq Int /\ MinId(parts[j]) \in parts[j]
        /\ \A id \in parts[j] : MinId(parts[j]) <= id
    BY <1>1, PartEnds
  <2> QED BY <2>1, <2>2
<1> QED BY <1>1 DEF IsParted

(* Who owns an id, without the detour over the next part. *)
LEMMA OwnersDef ==
  ASSUME NEW parts, IsList(parts), IsParted(parts), NEW id \in Int
  PROVE  Owners(parts, id) =
           {i \in DOMAIN parts :
              /\ (\E j \in DOMAIN parts : j < i) => id >= MinId(parts[i])
              /\ \A j \in DOMAIN parts : j > i => id < MinId(parts[j])}
<1> SUFFICES ASSUME NEW i \in DOMAIN parts
             PROVE  /\ i # MinId(DOMAIN parts) <=> \E j \in DOMAIN parts : j < i
                    /\ LET later == {j \in DOMAIN parts : j > i} IN
                         (later # {} => id < MinId(parts[MinId(later)]))
                           <=> \A j \in DOMAIN parts : j > i => id < MinId(parts[j])
  BY DEF Owners
<1>1. i # MinId(DOMAIN parts) <=> \E j \in DOMAIN parts : j < i
  <2>1. DOMAIN parts \in SUBSET Int /\ IsFiniteSet(DOMAIN parts) /\ DOMAIN parts # {}
    BY DEF IsList
  <2>2. MinId(DOMAIN parts) \in DOMAIN parts /\ \A k \in DOMAIN parts : MinId(DOMAIN parts) <= k
    BY <2>1, MinIdDef
  <2> QED BY <2>1, <2>2
<1> DEFINE later == {j \in DOMAIN parts : j > i}
<1>2. (later # {} => id < MinId(parts[MinId(later)])) <=> \A j \in DOMAIN parts : j > i => id < MinId(parts[j])
  <2>1. CASE later = {}
    BY <2>1
  <2>2. CASE later # {}
    <3>1. later \in SUBSET Int /\ IsFiniteSet(later)
      BY FS_Subset DEF IsList
    <3> DEFINE n == MinId(later)
    <3>2. n \in later /\ \A k \in later : n <= k
      BY <2>2, <3>1, MinIdDef
    <3> HIDE DEF n
    <3>3. ASSUME NEW j \in later
          PROVE  MinId(parts[n]) <= MinId(parts[j]) /\ MinId(parts[n]) \in Int /\ MinId(parts[j]) \in Int
      <4>1. n \in DOMAIN parts /\ j \in DOMAIN parts /\ parts[n] # {} /\ parts[j] # {}
        BY <3>2 DEF IsParted
      <4>2. MinId(parts[n]) \in parts[n] /\ parts[n] \subseteq Int /\ MinId(parts[j]) \in parts[j] /\ parts[j] \subseteq Int
        BY <4>1, PartEnds
      <4>3. CASE n = j
        BY <4>2, <4>3
      <4>4. CASE n < j
        <5>1. MinId(parts[n]) < MinId(parts[j])
          BY <4>1, <4>2, <4>4, PartedDef
        <5> QED BY <4>2, <5>1
      <4> QED BY <3>1, <3>2, <4>3, <4>4
    <3>4. id < MinId(parts[n]) => \A j \in later : id < MinId(parts[j])
      BY <3>3
    <3> QED BY <2>2, <3>2, <3>4 DEF n
  <2> QED BY <2>1, <2>2
<1> QED BY <1>1, <1>2

(* No two parts own an id. *)
LEMMA OneOwner ==
  ASSUME NEW parts, IsList(parts), IsParted(parts), NEW id \in Int,
         NEW i \in Owners(parts, id), NEW j \in Owners(parts, id)
  PROVE  i = j
<1>1. /\ i \in DOMAIN parts /\ j \in DOMAIN parts /\ i \in Nat /\ j \in Nat
      /\ i < j => id < MinId(parts[j]) /\ id >= MinId(parts[j])
      /\ j < i => id < MinId(parts[i]) /\ id >= MinId(parts[i])
  BY OwnersDef DEF IsList
<1>2. MinId(parts[i]) \in Int /\ MinId(parts[j]) \in Int
  BY <1>1, PartEnds DEF IsParted
<1> QED BY <1>1, <1>2

(* A part owns the ids it has. *)
LEMMA HolderOwns ==
  ASSUME NEW parts, IsList(parts), IsParted(parts), NEW i \in DOMAIN parts, NEW id \in parts[i]
  PROVE  id \in Int /\ i \in Owners(parts, id)
<1>1. /\ parts[i] \subseteq Int /\ MinId(parts[i]) <= id
  BY PartEnds
<1>2. ASSUME NEW j \in DOMAIN parts, j > i
      PROVE  id < MinId(parts[j])
  <2>1. MinId(parts[j]) \in parts[j]
    BY PartEnds DEF IsParted
  <2> QED BY <1>2, <2>1, PartedDef DEF IsList
<1> QED BY <1>1, <1>2, OwnersDef

(* _assign_target_parts gives an id to its owner. *)
LEMMA TargetOwns ==
  ASSUME NEW parts, IsList(parts), IsParted(parts), DOMAIN parts # {}, NEW id \in Int
  PROVE  TargetPart(parts, id) \in Owners(parts, id)
<1> DEFINE holding == {i \in DOMAIN parts : id \in MinId(parts[i])..MaxId(parts[i])}
           lower == {i \in DOMAIN parts : MaxId(parts[i]) < id}
           t == TargetPart(parts, id)
<1>1. \A i \in DOMAIN parts : i \in Nat /\ MinId(parts[i]) \in Int /\ MaxId(parts[i]) \in Int
                              /\ MinId(parts[i]) <= MaxId(parts[i])
  <2>1. ASSUME NEW i \in DOMAIN parts
        PROVE  i \in Nat /\ MinId(parts[i]) \in Int /\ MaxId(parts[i]) \in Int
                 /\ MinId(parts[i]) <= MaxId(parts[i])
    BY PartEnds DEF IsParted, IsList
  <2> QED BY <2>1
<1>2. \A i, j \in DOMAIN parts : i < j => MaxId(parts[i]) < MinId(parts[j])
  BY DEF IsParted
<1>3. CASE holding # {}
  <2>1. t \in holding
    BY <1>3 DEF TargetPart
  <2>2. t \in DOMAIN parts /\ MinId(parts[t]) <= id /\ id <= MaxId(parts[t])
    BY <1>1, <2>1
  <2>3. \A j \in DOMAIN parts : j > t => id < MinId(parts[j])
    BY <1>1, <1>2, <2>2
  <2> QED BY <1>1, <2>2, <2>3, OwnersDef
<1>4. CASE holding = {} /\ lower # {}
  <2>1. IsFiniteSet(DOMAIN parts) /\ lower \subseteq DOMAIN parts
    BY DEF IsList
  <2>2. lower \in SUBSET Int /\ IsFiniteSet(lower)
    BY <1>1, <2>1, FS_Subset
  <2>3. MaxId(lower) \in lower /\ \A j \in lower : j <= MaxId(lower)
    BY <1>4, <2>2, MaxIdDef
  <2>4. \E i \in lower : \A j \in lower : MaxId(parts[j]) <= MaxId(parts[i])
    <3> DEFINE m == MaxId(lower)
    <3>1. m \in lower /\ \A j \in lower : j <= m
      BY <2>3
    <3> HIDE DEF m
    <3>2. \A j \in lower : MaxId(parts[j]) <= MaxId(parts[m])
      BY <1>1, <1>2, <2>1, <3>1
    <3> QED BY <3>1, <3>2
  <2>5. t \in lower /\ \A j \in lower : MaxId(parts[j]) <= MaxId(parts[t])
    BY <1>4, <2>4 DEF TargetPart
  <2> HIDE DEF t
  <2>6. t \in DOMAIN parts /\ MaxId(parts[t]) < id
    BY <2>5
  <2>7. ASSUME NEW j \in DOMAIN parts, j > t
        PROVE  id < MinId(parts[j])
    <3>1. j \notin lower
      BY <1>1, <1>2, <2>5, <2>6, <2>7
    <3>2. ~(MaxId(parts[j]) < id) /\ ~(id \in MinId(parts[j])..MaxId(parts[j]))
      BY <1>4, <3>1
    <3> QED BY <1>1, <3>2
  <2>8. id >= MinId(parts[t])
    BY <1>1, <2>6
  <2> QED BY <2>6, <2>7, <2>8, OwnersDef DEF t
<1>5. CASE holding = {} /\ lower = {}
  <2>1. t = MinId(DOMAIN parts)
    BY <1>5 DEF TargetPart
  <2>2. DOMAIN parts \in SUBSET Int /\ IsFiniteSet(DOMAIN parts)
    BY DEF IsList
  <2>3. t \in DOMAIN parts /\ \A k \in DOMAIN parts : t <= k
    BY <2>1, <2>2, MinIdDef
  <2> HIDE DEF t
  <2>4. \A j \in DOMAIN parts : id < MinId(parts[j])
    <3>1. ASSUME NEW j \in DOMAIN parts
          PROVE  id < MinId(parts[j])
      <4>1. ~(MaxId(parts[j]) < id) /\ ~(id \in MinId(parts[j])..MaxId(parts[j]))
        BY <1>5
      <4> QED BY <1>1, <4>1
    <3> QED BY <3>1
  <2>5. ~ \E j \in DOMAIN parts : j < t
    BY <1>1, <2>3
  <2> QED BY <2>3, <2>4, <2>5, OwnersDef DEF t
<1> QED BY <1>3, <1>4, <1>5

(* So the two rules are one. *)
LEMMA TargetIsOwner ==
  ASSUME NEW parts, IsList(parts), IsParted(parts), DOMAIN parts # {}, NEW id \in Int
  PROVE  Owners(parts, id) = {TargetPart(parts, id)}
BY TargetOwns, OneOwner

(* Parts filled with ids that the parts before them own stay apart. *)
LEMMA OwnedStayApart ==
  ASSUME NEW parts, IsList(parts), IsParted(parts), NEW new, IsList(new),
         DOMAIN new \subseteq DOMAIN parts,
         \A i \in DOMAIN new : new[i] # {} /\ \A id \in new[i] : i \in Owners(parts, id)
  PROVE  IsParted(new)
<1> SUFFICES ASSUME NEW i \in DOMAIN new, NEW j \in DOMAIN new, i < j,
                    NEW x \in new[i], NEW y \in new[j]
             PROVE  x < y
  BY PartedDef
<1>1. x \in Int /\ y \in Int
  BY PartsAssumption DEF IsList
<1>2. x < MinId(parts[j])
  BY <1>1, OwnersDef
<1>3. y >= MinId(parts[j])
  BY <1>1, OwnersDef
<1>4. MinId(parts[j]) \in Int
  BY PartEnds DEF IsParted
<1> QED BY <1>1, <1>2, <1>3, <1>4
LEMMA AllIdsDef ==
  ASSUME NEW parts, NEW x
  PROVE  x \in AllIds(parts) <=> \E i \in DOMAIN parts : x \in parts[i]
BY DEF AllIds

-----------------------------------------------------------------------------
(* What a compaction makes of parts. *)

LEMMA SingleIsParted ==
  ASSUME NEW ids \in SUBSET PartIds
  PROVE  IsList(Single(ids)) /\ IsParted(Single(ids)) /\ AllIds(Single(ids)) = ids
<1> DEFINE new == Single(ids)
<1>1. DOMAIN new = {j \in {1} : ids # {}} /\ \A i \in DOMAIN new : new[i] = ids /\ ids # {} /\ i = 1
  BY DEF Single
<1>2. IsList(new)
  <2>1. IsFiniteSet({1}) /\ DOMAIN new \subseteq {1}
    BY <1>1, FS_Singleton
  <2>2. IsFiniteSet(DOMAIN new)
    BY <2>1, FS_Subset
  <2>3. new \in [DOMAIN new -> SUBSET PartIds]
    BY DEF Single
  <2> QED BY <2>1, <2>2, <2>3 DEF IsList
<1>3. IsParted(new)
  <2> HIDE DEF new
  <2>1. /\ \A i \in DOMAIN new : new[i] # {}
        /\ \A i, j \in DOMAIN new : i < j => \A x \in new[i], y \in new[j] : x < y
    BY <1>1
  <2> QED BY <1>2, <2>1, PartedDef
<1>4. AllIds(new) = ids
  <2>1. ids # {} => 1 \in DOMAIN new
    BY <1>1
  <2> HIDE DEF new
  <2>2. \A x : x \in AllIds(new) <=> \E i \in DOMAIN new : x \in new[i]
    BY AllIdsDef
  <2> QED BY <1>1, <2>1, <2>2
<1> QED BY <1>2, <1>3, <1>4

(* The winners of the tiers leave every part but the one they belong to,   *)
(* also the parts that are linked as they are: none of these holds one.    *)
LEMMA RewrittenDef ==
  ASSUME NEW parts, IsList(parts), IsParted(parts), NEW live \in SUBSET PartIds, NEW gone \in SUBSET PartIds,
         NEW i \in DOMAIN parts
  PROVE  Rewritten(parts, live, gone, i) =
           (parts[i] \ (live \cup gone)) \cup {id \in live : i \in Owners(parts, id)}
<1>1. \A id \in live \cup gone : i \in Owners(parts, id) <=> TargetPart(parts, id) = i
  BY TargetIsOwner, PartsAssumption
<1>2. \A id \in parts[i] : i \in Owners(parts, id)
  BY HolderOwns
<1> QED BY <1>1, <1>2 DEF Rewritten

(* _compact_byid_table. *)
LEMMA TableIsKept ==
  ASSUME NEW parts, IsList(parts), IsParted(parts), NEW live \in SUBSET PartIds, NEW gone \in SUBSET (PartIds \ live)
  PROVE  LET new == CompactTable(parts, live, gone) IN
           IsList(new) /\ IsParted(new) /\ AllIds(new) = (AllIds(parts) \ gone) \cup live
<1> DEFINE new == CompactTable(parts, live, gone)
           R(i) == (parts[i] \ (live \cup gone)) \cup {id \in live : i \in Owners(parts, id)}
<1>1. CASE DOMAIN parts = {}
  <2>1. new = Single(live)
    BY <1>1 DEF CompactTable
  <2>2. AllIds(parts) = {}
    BY <1>1 DEF AllIds
  <2> QED BY <2>1, <2>2, SingleIsParted
<1>2. CASE DOMAIN parts # {}
  <2> HIDE DEF R
  <2>1. new = [i \in {j \in DOMAIN parts : R(j) # {}} |-> R(i)]
    <3>1. \A i \in DOMAIN parts : Rewritten(parts, live, gone, i) = R(i)
      BY RewrittenDef DEF R
    <3> QED BY <1>2, <3>1 DEF CompactTable
  <2> HIDE DEF new
  <2>2. DOMAIN new = {j \in DOMAIN parts : R(j) # {}} /\ \A i \in DOMAIN new : new[i] = R(i)
    BY <2>1
  <2>3. \A i \in DOMAIN parts : R(i) \in SUBSET PartIds
    BY DEF R, IsList
  <2>4. IsList(new)
    <3>1. IsFiniteSet(DOMAIN new)
      BY <2>2, FS_Subset DEF IsList
    <3> QED BY <2>1, <2>2, <2>3, <3>1 DEF IsList
  <2>5. IsParted(new)
    <3>1. \A i \in DOMAIN parts : \A id \in R(i) : i \in Owners(parts, id)
      BY HolderOwns DEF R
    <3> QED BY <2>2, <2>4, <3>1, OwnedStayApart
  <2>6. ASSUME NEW x PROVE x \in AllIds(new) <=> x \in (AllIds(parts) \ gone) \cup live
    <3>1. x \in AllIds(new) <=> \E i \in DOMAIN parts : x \in R(i)
      BY <2>2, AllIdsDef
    <3>2. x \in AllIds(parts) <=> \E i \in DOMAIN parts : x \in parts[i]
      BY AllIdsDef
    <3>3. x \in live => \E i \in DOMAIN parts : i \in Owners(parts, x)
      BY <1>2, TargetOwns, PartsAssumption DEF Owners
    <3> QED BY <3>1, <3>2, <3>3 DEF R
  <2> QED BY <2>4, <2>5, <2>6 DEF new
<1> QED BY <1>1, <1>2

(* _compact_history_type. *)
LEMMA HistoryPartsAreKept ==
  ASSUME NEW parts, IsList(parts), IsParted(parts), NEW stated \in SUBSET PartIds
  PROVE  LET new == CompactHistory(parts, stated) IN
           IsList(new) /\ IsParted(new) /\ AllIds(new) = AllIds(parts) \cup stated
<1> DEFINE new == CompactHistory(parts, stated)
           R(i) == parts[i] \cup {id \in stated : i \in Owners(parts, id)}
<1>1. CASE DOMAIN parts = {}
  <2>1. new = Single(stated)
    BY <1>1 DEF CompactHistory
  <2>2. AllIds(parts) = {}
    BY <1>1 DEF AllIds
  <2> QED BY <2>1, <2>2, SingleIsParted
<1>2. CASE DOMAIN parts # {}
  <2> HIDE DEF R
  <2>1. new = [i \in DOMAIN parts |-> R(i)]
    BY <1>2 DEF CompactHistory, R
  <2> HIDE DEF new
  <2>2. DOMAIN new = DOMAIN parts /\ \A i \in DOMAIN new : new[i] = R(i)
    BY <2>1
  <2>3. \A i \in DOMAIN parts : R(i) \in SUBSET PartIds
    BY DEF R, IsList
  <2>4. IsList(new)
    BY <2>1, <2>2, <2>3 DEF IsList
  <2>5. IsParted(new)
    <3>1. \A i \in DOMAIN parts : R(i) # {} /\ \A id \in R(i) : i \in Owners(parts, id)
      BY HolderOwns DEF R, IsParted
    <3> QED BY <2>2, <2>4, <3>1, OwnedStayApart
  <2>6. ASSUME NEW x PROVE x \in AllIds(new) <=> x \in AllIds(parts) \cup stated
    <3>1. x \in AllIds(new) <=> \E i \in DOMAIN parts : x \in R(i)
      BY <2>2, AllIdsDef
    <3>2. x \in AllIds(parts) <=> \E i \in DOMAIN parts : x \in parts[i]
      BY AllIdsDef
    <3>3. x \in stated => \E i \in DOMAIN parts : i \in Owners(parts, x)
      BY <1>2, TargetOwns, PartsAssumption DEF Owners
    <3> QED BY <3>1, <3>2, <3>3 DEF R
  <2> QED BY <2>4, <2>5, <2>6 DEF new
<1> QED BY <1>1, <1>2
-----------------------------------------------------------------------------
(* What a read finds. *)

(* parts_for_range: parts that are apart send a read to one file. *)
LEMMA PartedFinds ==
  ASSUME NEW parts, IsList(parts), IsParted(parts), NEW id \in AllIds(parts)
  PROVE  IsFound(parts, id)
<1>1. PICK i \in DOMAIN parts : id \in parts[i]
  BY AllIdsDef
<1>2. \A j \in DOMAIN parts : /\ j \in Nat
                              /\ MinId(parts[j]) \in Int /\ MaxId(parts[j]) \in Int
                              /\ MinId(parts[j]) <= MaxId(parts[j])
  <2>1. ASSUME NEW j \in DOMAIN parts
        PROVE  j \in Nat /\ MinId(parts[j]) \in Int /\ MaxId(parts[j]) \in Int /\ MinId(parts[j]) <= MaxId(parts[j])
    BY PartEnds DEF IsParted, IsList
  <2> QED BY <2>1
<1>3. id \in Int /\ MinId(parts[i]) <= id /\ id <= MaxId(parts[i])
  BY <1>1, PartEnds
<1>4. ASSUME NEW j \in DOMAIN parts, MaxId(parts[j]) >= id, MinId(parts[j]) <= id
      PROVE  j = i
  <2>1. (i < j => MaxId(parts[i]) < MinId(parts[j])) /\ (j < i => MaxId(parts[j]) < MinId(parts[i]))
    BY DEF IsParted
  <2> QED BY <1>2, <1>3, <1>4, <2>1
<1>5. PartsForRange(parts, id, id) = {i}
  BY <1>3, <1>4 DEF PartsForRange
<1> QED BY <1>1, <1>5 DEF IsFound

LEMMA PartedOwns ==
  ASSUME NEW parts, IsList(parts), IsParted(parts), DOMAIN parts # {}, NEW id \in PartIds
  PROVE  HasOneOwner(parts, id)
<1>1. id \in Int
  BY PartsAssumption
<1>2. Owners(parts, id) = {TargetPart(parts, id)}
  BY <1>1, TargetIsOwner
<1>3. TargetPart(parts, id) \in DOMAIN parts
  BY <1>2 DEF Owners
<1>4. \A j \in DOMAIN parts : id \in parts[j] => j \in Owners(parts, id)
  BY HolderOwns
<1> QED BY <1>2, <1>3, <1>4 DEF HasOneOwner

-----------------------------------------------------------------------------
(* The state machine. *)

LEMMA PartingsAreLists == \A parts \in Partings : IsList(parts)
<1> SUFFICES ASSUME NEW n \in 0..MaxParts, NEW parts \in [1..n -> SUBSET PartIds] PROVE IsList(parts)
  BY DEF Partings
<1>1. DOMAIN parts = 1..n /\ n \in Int
  BY PartsAssumption
<1>2. IsFiniteSet(1..n)
  BY <1>1, FS_Interval
<1> QED BY <1>1, <1>2 DEF IsList

(* The inductive invariant: both lists are parted and hold what they       *)
(* should.  What a read finds follows from it.                             *)
PartsInv ==
  /\ PartsTypeOK
  /\ IsParted(table) /\ AllIds(table) = rows
  /\ IsParted(history) /\ AllIds(history) = past

LEMMA TypeIsList == PartsTypeOK <=> rows \in SUBSET PartIds /\ past \in SUBSET PartIds /\ begun \in BOOLEAN
                                 /\ IsList(table) /\ IsList(history)
BY DEF PartsTypeOK, IsList

LEMMA AllIdsType ==
  ASSUME NEW parts, IsList(parts)
  PROVE  AllIds(parts) \in SUBSET PartIds
BY AllIdsDef DEF IsList

LEMMA NoPartsAreParted == IsList(NoParts) /\ IsParted(NoParts) /\ AllIds(NoParts) = {}
<1>1. DOMAIN NoParts = {} /\ NoParts \in [{} -> SUBSET PartIds]
  BY DEF NoParts
<1> QED BY <1>1, FS_EmptySet DEF IsList, IsParted, AllIds

LEMMA PartsInvInit == PartsInit => PartsInv
<1> SUFFICES ASSUME PartsInit PROVE PartsInv
  OBVIOUS
<1>1. IsList(table)
  BY PartingsAreLists DEF PartsInit
<1>2. rows \in SUBSET PartIds
  BY <1>1, AllIdsType DEF PartsInit
<1> QED BY <1>1, <1>2, NoPartsAreParted, TypeIsList DEF PartsInit, PartsInv

LEMMA PartsInvStep == PartsInv /\ [PartsNext]_partsVars => PartsInv'
<1> SUFFICES ASSUME PartsInv, [PartsNext]_partsVars PROVE PartsInv'
  OBVIOUS
<1>1. /\ rows \in SUBSET PartIds /\ past \in SUBSET PartIds /\ begun \in BOOLEAN
      /\ IsList(table) /\ IsParted(table) /\ AllIds(table) = rows
      /\ IsList(history) /\ IsParted(history) /\ AllIds(history) = past
  BY TypeIsList DEF PartsInv
<1>2. SUFFICES /\ rows' \in SUBSET PartIds /\ past' \in SUBSET PartIds /\ begun' \in BOOLEAN
               /\ IsList(table') /\ IsParted(table') /\ AllIds(table') = rows'
               /\ IsList(history') /\ IsParted(history') /\ AllIds(history') = past'
  BY DEF PartsInv, PartsTypeOK, IsList, IsParted, AllIds
<1>3. CASE StartHistory
  <2>1. PICK parts \in {table} \cup Partings :
          IsParted(parts) /\ history' = parts /\ past' = AllIds(parts)
    BY <1>3 DEF StartHistory
  <2>2. IsList(parts)
    BY <1>1, PartingsAreLists
  <2> QED BY <1>1, <1>3, <2>1, <2>2, AllIdsType DEF StartHistory
<1>4. CASE CompactSome
  <2>1. PICK live \in SUBSET PartIds, gone \in SUBSET PartIds, stated \in SUBSET PartIds :
          gone \in SUBSET (PartIds \ live) /\ Compact(live, gone, stated)
    BY <1>4 DEF CompactSome
  <2>2. /\ table' = CompactTable(table, live, gone) /\ rows' = (rows \ gone) \cup live /\ begun' = begun
        /\ history' = IF begun THEN CompactHistory(history, stated) ELSE history
        /\ past' = IF begun THEN past \cup stated ELSE past
    BY <2>1 DEF Compact
  <2>3. IsList(table') /\ IsParted(table') /\ AllIds(table') = rows'
    BY <1>1, <2>1, <2>2, TableIsKept
  <2>4. IsList(history') /\ IsParted(history') /\ AllIds(history') = past'
    BY <1>1, <2>2, HistoryPartsAreKept
  <2> QED BY <1>1, <2>2, <2>3, <2>4
<1>5. CASE UNCHANGED partsVars
  BY <1>1, <1>5 DEF partsVars
<1> QED BY <1>3, <1>4, <1>5 DEF PartsNext

(* However a build split the ids, and however many compactions follow each *)
(* other, the by-id files of the current rows and those of the history     *)
(* hold the ids they should, in ranges that do not meet, and a read finds  *)
(* every id in the one file it opens (_compact_byid_table,                 *)
(* _compact_history_type, parts_for_range).                                *)
THEOREM PartsAreKept == PartsSpec => []CompactionKeepsParts
<1>1. PartsInv => CompactionKeepsParts
  <2> SUFFICES ASSUME PartsInv PROVE CompactionKeepsParts
    OBVIOUS
  <2>1. /\ IsList(table) /\ IsParted(table) /\ AllIds(table) = rows
        /\ IsList(history) /\ IsParted(history) /\ AllIds(history) = past
    BY TypeIsList DEF PartsInv
  <2>2. past # {} => DOMAIN history # {}
    BY <2>1 DEF AllIds
  <2>3. \A id \in rows : IsFound(table, id)
    BY <2>1, PartedFinds
  <2>4. \A id \in past : IsFound(history, id)
    BY <2>1, PartedFinds
  <2>5. past # {} => \A id \in PartIds : HasOneOwner(history, id)
    BY <2>1, <2>2, PartedOwns
  <2> QED BY <2>1, <2>3, <2>4, <2>5 DEF CompactionKeepsParts
<1> QED BY <1>1, PartsInvInit, PartsInvStep, PTL DEF PartsSpec
-----------------------------------------------------------------------------
(* Induction over the naturals, for a set. *)
LEMMA SetInduction ==
  ASSUME NEW S, 0 \in S, \A n \in Nat : n \in S => n + 1 \in S
  PROVE  Nat \subseteq S
<1> DEFINE R == OpToRel(<, Nat)
           T == Nat \ S
<1> SUFFICES ASSUME T # {}
             PROVE  FALSE
  OBVIOUS
<1>1. IsWellFoundedOn(R, Nat)
  BY NatLessThanWellFounded
<1>2. \A x, y \in Nat : x < y => <<x, y>> \in R
  BY DEF OpToRel
<1> HIDE DEF R
<1>3. PICK x \in T : \A y \in T : ~(<<y, x>> \in R)
  BY <1>1, WFMin
<1>4. x \in Nat /\ x # 0 /\ x - 1 \in Nat /\ x - 1 < x
  BY <1>3
<1>5. x - 1 \in S
  BY <1>2, <1>3, <1>4
<1>6. (x - 1) + 1 \in S
  BY <1>4, <1>5
<1> QED
  BY <1>3, <1>4, <1>6

-----------------------------------------------------------------------------
(* Recursion.  A row is known by its id, and however ids become rows, they *)
(* become the rows of the instant.                                         *)

IsData(d) == IsTable(d.then) /\ IsTable(d.now)
RowAt(d, s, i) == [id |-> i, v |-> Table(d, s)[i].v, kids |-> Table(d, s)[i].kids]

LEMMA RowDef ==
  ASSUME NEW d, NEW s, NEW r
  PROVE  r \in RowsOf(d, s) <=> r.id \in Ids /\ Table(d, s)[r.id] # None /\ r = RowAt(d, s, r.id)
BY DEF RowsOf, RowAt

LEMMA RowIsThere ==
  ASSUME NEW d, NEW s, NEW i \in Ids, Table(d, s)[i] # None
  PROVE  RowAt(d, s, i) \in RowsOf(d, s) /\ RowAt(d, s, i).id = i
BY DEF RowsOf, RowAt

LEMMA RowsAreKnownById ==
  ASSUME NEW d, NEW s, NEW r \in RowsOf(d, s), NEW q \in RowsOf(d, s), r.id = q.id
  PROVE  r = q
BY RowDef

LEMMA RestIsById ==
  ASSUME NEW d, NEW s, NEW ids, NEW near \in SUBSET ById(d, s, ids)
  PROVE  WithRest(d, s, near, ids) = ById(d, s, ids)
<1>1. ASSUME NEW r \in ById(d, s, ids) PROVE r \in WithRest(d, s, near, ids)
  <2>1. r \in RowsOf(d, s) /\ r.id \in ids
    BY <1>1 DEF ById
  <2>2. CASE r.id \in IdsOf(near)
    <3>1. PICK q \in near : q.id = r.id
      BY <2>2 DEF IdsOf
    <3>2. q \in RowsOf(d, s)
      BY <3>1 DEF ById
    <3>3. q = r
      BY <2>1, <3>1, <3>2, RowsAreKnownById
    <3> QED BY <3>3 DEF WithRest
  <2>3. CASE r.id \notin IdsOf(near)
    BY <2>1, <2>3 DEF WithRest, ById
  <2> QED BY <2>2, <2>3
<1>2. WithRest(d, s, near, ids) \subseteq ById(d, s, ids)
  BY DEF WithRest, ById
<1> QED BY <1>1, <1>2

LEMMA HydratedIsById ==
  ASSUME NEW d, NEW s, NEW wide, NEW ids, NEW box
  PROVE  /\ HydrateWays(d, s, wide, ids, box) = ById(d, s, ids)
         /\ HydrateNodes(d, s, wide, ids, box) = ById(d, s, ids)
         /\ Hydrate(d, s, ids) = ById(d, s, ids)
<1>1. HydrateWays(d, s, wide, ids, box) = ById(d, s, ids)
  BY RestIsById DEF HydrateWays
<1>2. HydrateNodes(d, s, wide, ids, box) = ById(d, s, ids)
  BY RestIsById DEF HydrateNodes
<1>3. HydrateInCells(d, s, ids \ Nodes) = ById(d, s, ids \ Nodes)
  BY RestIsById DEF HydrateInCells
<1>4. Hydrate(d, s, ids) = ById(d, s, ids)
  BY <1>3 DEF Hydrate, ById
<1> QED BY <1>1, <1>2, <1>4

LEMMA HopRowsAreById ==
  ASSUME NEW d, NEW s, NEW wide, NEW down \in BOOLEAN, NEW R, NEW new \in SUBSET Ids
  PROVE  HopRows(d, s, wide, down, R, new) = ById(d, s, new)
<1>1. CASE ~down
  BY <1>1, HydratedIsById DEF HopRows
<1>2. CASE down
  <2>1. HopRows(d, s, wide, down, R, new) =
          ById(d, s, new \cap Ways) \cup ById(d, s, new \cap Nodes) \cup ById(d, s, new \cap Relations)
    BY <1>2, HydratedIsById DEF HopRows
  <2> QED BY <2>1 DEF ById, Ids
<1> QED BY <1>1, <1>2

-----------------------------------------------------------------------------
(* The steps up and down, and what a hop finds of them. *)

KidsOf(d, s) == [i \in Ids |-> IF Table(d, s)[i] = None THEN {} ELSE Table(d, s)[i].kids]
UpOf(d, s) == [i \in Ids |-> Parents(Table(d, s), Ways \cup Relations, {i})]
StepOf(d, s, down) == IF down THEN KidsOf(d, s) ELSE UpOf(d, s)

LEMMA TablesAreTables ==
  ASSUME NEW d, IsData(d), NEW s
  PROVE  IsTable(Table(d, s))
BY DEF IsData, Table

LEMMA StepType ==
  ASSUME NEW d, IsData(d), NEW s, NEW down \in BOOLEAN
  PROVE  StepOf(d, s, down) \in [Ids -> SUBSET Ids]
<1>1. KidsOf(d, s) \in [Ids -> SUBSET Ids]
  BY TablesAreTables DEF KidsOf, IsTable
<1>2. UpOf(d, s) \in [Ids -> SUBSET Ids]
  BY DEF UpOf, Parents, Ids
<1> QED BY <1>1, <1>2 DEF StepOf

LEMMA ForwardHopIsKids ==
  ASSUME NEW d, IsData(d), NEW s, NEW R \in SUBSET RowsOf(d, s)
  PROVE  ForwardHop(R, Ids) = UNION {KidsOf(d, s)[r.id] : r \in R}
<1>1. ASSUME NEW r \in R
      PROVE  /\ r.id \in Ids /\ r.kids = KidsOf(d, s)[r.id]
             /\ r.kids \subseteq Ids /\ (r.id \in Nodes => r.kids = {})
  <2>1. r.id \in Ids /\ Table(d, s)[r.id] # None /\ r = RowAt(d, s, r.id)
    BY RowDef
  <2>2. r.kids = Table(d, s)[r.id].kids
    BY <2>1 DEF RowAt
  <2> QED BY <2>1, <2>2, TablesAreTables DEF IsTable, KidsOf
<1>2. ASSUME NEW i \in ForwardHop(R, Ids) PROVE \E r \in R : i \in r.kids
  BY <1>2, Zenon DEF ForwardHop
<1>3. ASSUME NEW r \in R, NEW i \in r.kids PROVE i \in ForwardHop(R, Ids)
  <2>1. r.id \in Ways \/ r.id \in Relations
    BY <1>1, <1>3 DEF Ids
  <2>2. i \in Ids
    BY <1>1, <1>3
  <2>3. r.id \in Ways => i \in UNION {q.kids : q \in {x \in R : x.id \in Ways}}
    BY <1>3, Zenon
  <2>4. r.id \in Relations => i \in UNION {q.kids : q \in {x \in R : x.id \in Relations}}
    BY <1>3, Zenon
  <2> QED BY <2>1, <2>2, <2>3, <2>4, Zenon DEF ForwardHop
<1>4. ASSUME NEW r \in R PROVE r.kids = KidsOf(d, s)[r.id]
  BY <1>1
<1> HIDE DEF KidsOf
<1> QED BY <1>2, <1>3, <1>4

LEMMA BackwardHopFinds ==
  ASSUME NEW d, IsData(d), NEW s \in Snapshots, NEW wide \in BOOLEAN,
         ~(wide /\ IsSnapshot(s)), NEW R \in SUBSET RowsOf(d, s), NEW r \in R
  PROVE  UpOf(d, s)[r.id] \subseteq BackwardHop(d, s, wide, R, Ids)
<1>1. r.id \in Ids /\ Table(d, s)[r.id] # None /\ r = RowAt(d, s, r.id)
  BY RowDef
<1> SUFFICES ASSUME NEW p \in UpOf(d, s)[r.id]
             PROVE  p \in BackwardHop(d, s, wide, R, Ids)
  OBVIOUS
<1>2. p \in Ways \cup Relations /\ Table(d, s)[p] # None /\ r.id \in Table(d, s)[p].kids
  BY <1>1 DEF UpOf, Parents
<1>3. {q \in R : q.id \in Ids} = R /\ r.id \in IdsOf(R)
  BY RowDef DEF IdsOf
<1>4. ~IsSnapshot(s) => Table(d, s) = d.now
  BY DEF Snapshots, IsSnapshot, Table
<1>5. p \in Ids
  BY <1>2 DEF Ids
<1>6. CASE p \in Relations
  <2>1. p \in ParentRelations(d, s, IdsOf(R))
    <3>1. CASE IsSnapshot(s)
      BY <1>2, <1>3, <1>6, <3>1 DEF ParentRelations, Parents
    <3>2. CASE ~IsSnapshot(s)
      BY <1>2, <1>3, <1>4, <1>5, <1>6, <3>2 DEF ParentRelations, Parents, InDelta
    <3> QED BY <3>1, <3>2
  <2> QED BY <1>3, <2>1 DEF BackwardHop
<1>7. CASE p \in Ways
  <2>1. r.id \in Nodes
    BY <1>2, <1>5, <1>7, TablesAreTables DEF IsTable
  <2>2. p \in ParentWays(d, s, wide, R)
    <3>1. CASE ~wide
      <4>1. r \in ById(d, s, Table(d, s)[p].kids)
        BY <1>2 DEF ById
      <4>2. r.v \in WayBox(d, s, p) \cap Places(R)
        BY <2>1, <4>1 DEF WayBox, Places
      <4>3. p \in Parents(Table(d, s), Ways, IdsOf(R) \cap Nodes)
        BY <1>2, <1>3, <1>7, <2>1 DEF Parents
      <4> QED BY <3>1, <4>2, <4>3 DEF ParentWays
    <3>2. CASE wide
      BY <1>2, <1>3, <1>4, <1>5, <1>7, <2>1, <3>2 DEF ParentWays, Parents, InDelta
    <3> QED BY <3>1, <3>2
  <2> QED BY <1>3, <2>2 DEF BackwardHop
<1> QED BY <1>2, <1>6, <1>7

LEMMA HopType ==
  ASSUME NEW d, IsData(d), NEW s, NEW wide, NEW down \in BOOLEAN, NEW R \in SUBSET RowsOf(d, s)
  PROVE  Hop(d, s, wide, down, R) \in SUBSET Ids
<1>1. CASE down
  <2>1. \A r \in R : KidsOf(d, s)[r.id] \subseteq Ids
    <3>1. KidsOf(d, s) \in [Ids -> SUBSET Ids]
      BY StepType DEF StepOf
    <3>2. \A r \in R : r.id \in Ids
      BY RowDef
    <3> QED BY <3>1, <3>2
  <2> QED BY <1>1, <2>1, ForwardHopIsKids DEF Hop
<1>2. CASE ~down
  BY <1>2 DEF Hop, BackwardHop, ParentWays, ParentRelations, Parents, Ids
<1> QED BY <1>1, <1>2
-----------------------------------------------------------------------------
(* What is reachable is the least set that the steps do not leave. *)

IsClosed(start, step, C) == \A i \in start \cup C : step[i] \subseteq C

LEMMA ReachableDef ==
  ASSUME NEW start \in SUBSET Ids, NEW step \in [Ids -> SUBSET Ids]
  PROVE  /\ Reachable(start, step) \in SUBSET Ids
         /\ IsClosed(start, step, Reachable(start, step))
         /\ \A D \in SUBSET Reachable(start, step) :
              IsClosed(start, step, D) => D = Reachable(start, step)
<1> DEFINE IsLeast(C) == /\ IsClosed(start, step, C)
                         /\ \A D \in SUBSET C : D # C => ~IsClosed(start, step, D)
           All == {i \in Ids : \A X \in SUBSET Ids : IsClosed(start, step, X) => i \in X}
<1>1. Reachable(start, step) = CHOOSE C \in SUBSET Ids : IsLeast(C)
  BY DEF Reachable, IsClosed
<1>2. All \in SUBSET Ids
  OBVIOUS
<1>3. IsClosed(start, step, All)
  <2> SUFFICES ASSUME NEW i \in start \cup All, NEW j \in step[i],
                      NEW X \in SUBSET Ids, IsClosed(start, step, X)
               PROVE  j \in X
    BY DEF IsClosed
  <2>1. i \in start \cup X
    OBVIOUS
  <2> QED BY <2>1 DEF IsClosed
<1>4. \A D \in SUBSET All : D # All => ~IsClosed(start, step, D)
  OBVIOUS
<1>5. IsLeast(All)
  BY <1>3, <1>4
<1> HIDE DEF All, IsLeast
<1>6. Reachable(start, step) \in SUBSET Ids /\ IsLeast(Reachable(start, step))
  BY <1>1, <1>2, <1>5
<1> QED BY <1>6 DEF IsLeast

-----------------------------------------------------------------------------
(* The rounds of recurse_transitive. *)

IsRounds(f, d, s, wide, down, R, n) ==
  /\ f = [j \in 0..n |-> f[j]]
  /\ f[0] = FirstRound(d, s, wide, down, R, IdsOf(R))
  /\ \A j \in 1..n : f[j] = NextRound(d, s, wide, down, f[j - 1])

LEMMA RoundsExist ==
  ASSUME NEW d, NEW s, NEW wide, NEW down \in BOOLEAN, NEW R, NEW n \in Nat
  PROVE  \E f : IsRounds(f, d, s, wide, down, R, n)
<1> DEFINE S == {m \in Nat : \E f : IsRounds(f, d, s, wide, down, R, m)}
<1>1. 0 \in S
  <2> DEFINE g == [j \in 0..0 |-> FirstRound(d, s, wide, down, R, IdsOf(R))]
  <2>1. IsRounds(g, d, s, wide, down, R, 0)
    BY DEF IsRounds
  <2> QED BY <2>1
<1>2. ASSUME NEW m \in Nat, m \in S PROVE m + 1 \in S
  <2>1. PICK f : IsRounds(f, d, s, wide, down, R, m)
    BY <1>2
  <2> DEFINE g == [j \in 0..(m + 1) |-> IF j = m + 1 THEN NextRound(d, s, wide, down, f[m]) ELSE f[j]]
  <2>2. g = [j \in 0..(m + 1) |-> g[j]] /\ g[0] = f[0]
    OBVIOUS
  <2>3. ASSUME NEW j \in 1..(m + 1) PROVE g[j] = NextRound(d, s, wide, down, g[j - 1])
    <3>1. CASE j = m + 1
      <4>1. g[j] = NextRound(d, s, wide, down, f[m]) /\ g[j - 1] = f[m]
        BY <3>1
      <4> QED BY <4>1
    <3>2. CASE j # m + 1
      <4>1. j \in 1..m /\ g[j] = f[j] /\ g[j - 1] = f[j - 1]
        BY <3>2
      <4> QED BY <2>1, <4>1 DEF IsRounds
    <3> QED BY <3>1, <3>2
  <2> HIDE DEF g
  <2>4. IsRounds(g, d, s, wide, down, R, m + 1)
    BY <2>1, <2>2, <2>3 DEF IsRounds
  <2> QED BY <2>4
<1>3. Nat \subseteq S
  <2> HIDE DEF S
  <2> QED BY <1>1, <1>2, SetInduction
<1> QED BY <1>3

LastRound(f) == CHOOSE k \in 0..Cardinality(Ids) : f[k].new = {}

LEMMA DiscoveredDef ==
  ASSUME NEW d, NEW s, NEW wide, NEW down \in BOOLEAN, NEW R, Cardinality(Ids) \in Nat
  PROVE  \E f : /\ IsRounds(f, d, s, wide, down, R, Cardinality(Ids))
                /\ Discovered(d, s, wide, down, R, IdsOf(R)) = f[LastRound(f)].found
<1> DEFINE N == Cardinality(Ids)
           Rounds(f) == [k \in 0..N |-> IF k = 0 THEN FirstRound(d, s, wide, down, R, IdsOf(R))
                                        ELSE NextRound(d, s, wide, down, f[k - 1])]
           round == CHOOSE f : f = Rounds(f)
<1>1. Discovered(d, s, wide, down, R, IdsOf(R)) = round[LastRound(round)].found
  BY DEF Discovered, LastRound
<1>2. \E f : f = Rounds(f)
  <2>1. PICK f : IsRounds(f, d, s, wide, down, R, N)
    BY RoundsExist
  <2>2. ASSUME NEW k \in 0..N PROVE f[k] = Rounds(f)[k]
    <3>1. k = 0 \/ k \in 1..N
      OBVIOUS
    <3>2. k = 0 => f[k] = Rounds(f)[k]
      BY <2>1 DEF IsRounds
    <3>3. k \in 1..N => f[k] = Rounds(f)[k]
      BY <2>1 DEF IsRounds
    <3> QED BY <3>1, <3>2, <3>3
  <2>3. f = [k \in 0..N |-> f[k]]
    BY <2>1 DEF IsRounds
  <2>4. [k \in 0..N |-> f[k]] = [k \in 0..N |-> Rounds(f)[k]]
    BY <2>2
  <2> QED BY <2>3, <2>4
<1>3. round = Rounds(round)
  BY <1>2
<1> HIDE DEF round
<1>4. IsRounds(round, d, s, wide, down, R, N)
  <2>1. \A k \in 0..N : round[k] = Rounds(round)[k]
    BY <1>3
  <2>2. round[0] = FirstRound(d, s, wide, down, R, IdsOf(R))
    BY <2>1
  <2>3. \A k \in 1..N : round[k] = NextRound(d, s, wide, down, round[k - 1])
    BY <2>1
  <2>4. round = [j \in 0..N |-> round[j]]
    BY <1>3
  <2> QED BY <2>2, <2>3, <2>4 DEF IsRounds
<1> QED BY <1>1, <1>4

(* What a hop must do for the search to be complete. *)
HopCovers(d, s, wide, down) ==
  \A R \in SUBSET RowsOf(d, s) : \A r \in R :
    StepOf(d, s, down)[r.id] \subseteq Hop(d, s, wide, down, R)

(* After every round: the rows found are those of the ids seen, and what   *)
(* is a step away from an id seen is seen, or the next hop finds it.       *)
RoundInv(d, s, wide, down, R, b) ==
  /\ b.last \in SUBSET RowsOf(d, s)
  /\ b.seen \in SUBSET Ids
  /\ IdsOf(R) \cup IdsOf(b.last) \subseteq b.seen
  /\ b.new = Hop(d, s, wide, down, b.last) \ b.seen
  /\ b.found = ById(d, s, b.seen \ IdsOf(R))
  /\ \A i \in b.seen : \/ Table(d, s)[i] = None
                       \/ StepOf(d, s, down)[i] \subseteq b.seen
                       \/ i \in IdsOf(b.last)

LEMMA FirstRoundInv ==
  ASSUME NEW d, IsData(d), NEW s, NEW wide, NEW down \in BOOLEAN, NEW R \in SUBSET RowsOf(d, s)
  PROVE  RoundInv(d, s, wide, down, R, FirstRound(d, s, wide, down, R, IdsOf(R)))
<1>1. IdsOf(R) \in SUBSET Ids
  BY RowDef DEF IdsOf
<1> QED BY <1>1 DEF RoundInv, FirstRound, ById

LEMMA NextRoundInv ==
  ASSUME NEW d, IsData(d), NEW s, NEW wide, NEW down \in BOOLEAN, NEW R \in SUBSET RowsOf(d, s),
         HopCovers(d, s, wide, down), NEW b, RoundInv(d, s, wide, down, R, b)
  PROVE  RoundInv(d, s, wide, down, R, NextRound(d, s, wide, down, b))
<1> DEFINE c == NextRound(d, s, wide, down, b)
           step == StepOf(d, s, down)
<1>1. b.new \in SUBSET Ids /\ b.new \cap b.seen = {}
  BY HopType DEF RoundInv
<1>2. HopRows(d, s, wide, down, b.last, b.new) = ById(d, s, b.new)
  BY <1>1, HopRowsAreById
<1>3. /\ c.last = ById(d, s, b.new) /\ c.seen = b.seen \cup b.new
      /\ c.new = Hop(d, s, wide, down, c.last) \ c.seen
      /\ c.found = b.found \cup ById(d, s, b.new)
  BY <1>2 DEF NextRound
<1> HIDE DEF c
<1>4. c.last \in SUBSET RowsOf(d, s) /\ IdsOf(c.last) \subseteq b.new
  BY <1>3 DEF ById, IdsOf
<1>5. c.found = ById(d, s, c.seen \ IdsOf(R))
  <2>1. c.seen \ IdsOf(R) = (b.seen \ IdsOf(R)) \cup b.new
    BY <1>1, <1>3 DEF RoundInv
  <2> QED BY <1>3, <2>1 DEF RoundInv, ById
<1>6. ASSUME NEW i \in c.seen, Table(d, s)[i] # None, i \notin IdsOf(c.last)
      PROVE  step[i] \subseteq c.seen
  <2>1. i \in b.seen
    <3> SUFFICES ASSUME i \in b.new PROVE i \in IdsOf(c.last)
      BY <1>3, <1>6
    <3>1. RowAt(d, s, i) \in RowsOf(d, s) /\ RowAt(d, s, i).id = i
      BY <1>1, <1>6, RowIsThere
    <3> QED BY <1>3, <3>1 DEF ById, IdsOf
  <2>2. CASE step[i] \subseteq b.seen
    BY <1>3, <2>2
  <2>3. CASE i \in IdsOf(b.last)
    <3>1. PICK r \in b.last : r.id = i
      BY <2>3 DEF IdsOf
    <3>2. step[i] \subseteq Hop(d, s, wide, down, b.last)
      BY <3>1 DEF HopCovers, RoundInv
    <3>3. Hop(d, s, wide, down, b.last) \subseteq b.seen \cup b.new
      BY DEF RoundInv
    <3> QED BY <1>3, <3>2, <3>3
  <2> QED BY <1>6, <2>1, <2>2, <2>3 DEF RoundInv
<1>7. IdsOf(R) \cup IdsOf(c.last) \subseteq c.seen /\ c.seen \in SUBSET Ids
  BY <1>1, <1>3, <1>4 DEF RoundInv
<1>8. RoundInv(d, s, wide, down, R, c)
  BY <1>3, <1>4, <1>5, <1>6, <1>7 DEF RoundInv
<1> QED BY <1>8 DEF c
LEMMA RoundsKeepInv ==
  ASSUME NEW d, IsData(d), NEW s, NEW wide, NEW down \in BOOLEAN, NEW R \in SUBSET RowsOf(d, s),
         HopCovers(d, s, wide, down), NEW n \in Nat, NEW f, IsRounds(f, d, s, wide, down, R, n)
  PROVE  \A k \in 0..n : RoundInv(d, s, wide, down, R, f[k])
<1> DEFINE S == {k \in Nat : k <= n => RoundInv(d, s, wide, down, R, f[k])}
<1>1. 0 \in S
  BY FirstRoundInv DEF IsRounds
<1>2. ASSUME NEW k \in Nat, k \in S PROVE k + 1 \in S
  <2> SUFFICES ASSUME k + 1 <= n PROVE RoundInv(d, s, wide, down, R, f[k + 1])
    OBVIOUS
  <2>1. RoundInv(d, s, wide, down, R, f[k])
    BY <1>2
  <2>2. k + 1 \in 1..n /\ (k + 1) - 1 = k
    OBVIOUS
  <2>3. f[k + 1] = NextRound(d, s, wide, down, f[k])
    BY <2>2 DEF IsRounds
  <2> QED BY <2>1, <2>3, NextRoundInv
<1>3. Nat \subseteq S
  <2> HIDE DEF S
  <2> QED BY <1>1, <1>2, SetInduction
<1> QED BY <1>3

LEMMA NextRoundDef ==
  ASSUME NEW d, NEW s, NEW wide, NEW down \in BOOLEAN, NEW b
  PROVE  NextRound(d, s, wide, down, b).seen = b.seen \cup b.new
BY DEF NextRound

(* Every round but the last sees more, so that the loop ends. *)
LEMMA RoundsEnd ==
  ASSUME NEW d, IsData(d), NEW s, NEW wide, NEW down \in BOOLEAN, NEW R \in SUBSET RowsOf(d, s),
         HopCovers(d, s, wide, down), IsFiniteSet(Ids),
         NEW f, IsRounds(f, d, s, wide, down, R, Cardinality(Ids))
  PROVE  \E k \in 0..Cardinality(Ids) : f[k].new = {}
<1> DEFINE N == Cardinality(Ids)
<1>1. N \in Nat
  BY FS_CardinalityType
<1> SUFFICES ASSUME \A k \in 0..N : f[k].new # {} PROVE FALSE
  OBVIOUS
<1>2. ASSUME NEW k \in 0..N
      PROVE  f[k].seen \in SUBSET Ids /\ f[k].new \in SUBSET Ids /\ f[k].new \cap f[k].seen = {}
  <2>1. RoundInv(d, s, wide, down, R, f[k])
    BY <1>1, RoundsKeepInv
  <2> QED BY <2>1, HopType DEF RoundInv
<1>3. ASSUME NEW T \in SUBSET Ids
      PROVE  /\ IsFiniteSet(T) /\ Cardinality(T) \in Nat /\ Cardinality(T) <= N
             /\ (Cardinality(T) = N => T = Ids)
  <2>1. IsFiniteSet(T) /\ Cardinality(T) <= N /\ (Cardinality(T) = N => T = Ids)
    BY FS_Subset
  <2> QED BY <2>1, FS_CardinalityType
<1> DEFINE S == {k \in Nat : k <= N => k <= Cardinality(f[k].seen)}
<1>4. 0 \in S
  <2>1. Cardinality(f[0].seen) \in Nat
    BY <1>1, <1>2, <1>3
  <2> QED BY <2>1
<1>5. ASSUME NEW k \in Nat, k \in S PROVE k + 1 \in S
  <2> SUFFICES ASSUME k + 1 <= N PROVE k + 1 <= Cardinality(f[k + 1].seen)
    OBVIOUS
  <2>1. k \in 0..N /\ k + 1 \in 0..N /\ k + 1 \in 1..N /\ (k + 1) - 1 = k
    BY <1>1
  <2>2. f[k + 1].seen = f[k].seen \cup f[k].new
    <3>1. f[k + 1] = NextRound(d, s, wide, down, f[k])
      BY <2>1 DEF IsRounds
    <3> QED BY <3>1, NextRoundDef
  <2>3. f[k].seen \in SUBSET f[k + 1].seen /\ f[k].seen # f[k + 1].seen
    BY <1>2, <2>1, <2>2
  <2>4. /\ IsFiniteSet(f[k + 1].seen)
        /\ Cardinality(f[k].seen) \in Nat /\ Cardinality(f[k + 1].seen) \in Nat
    BY <1>2, <1>3, <2>1
  <2>5. Cardinality(f[k].seen) <= Cardinality(f[k + 1].seen)
        /\ Cardinality(f[k].seen) # Cardinality(f[k + 1].seen)
    BY <2>3, <2>4, FS_Subset
  <2>6. k <= Cardinality(f[k].seen)
    BY <1>5, <2>1
  <2> QED BY <2>4, <2>5, <2>6
<1>6. Nat \subseteq S
  <2> HIDE DEF S
  <2> QED BY <1>4, <1>5, SetInduction
<1>7. N \in 0..N /\ N <= Cardinality(f[N].seen)
  BY <1>1, <1>6
<1>8. f[N].seen = Ids
  <2>1. f[N].seen \in SUBSET Ids
    BY <1>2, <1>7
  <2>2. Cardinality(f[N].seen) = N
    BY <1>1, <1>3, <1>7, <2>1
  <2> QED BY <1>3, <2>1, <2>2
<1> QED BY <1>2, <1>7, <1>8

(* The last round has seen everything that can be reached. *)
LEMMA SearchIsComplete ==
  ASSUME NEW d, IsData(d), NEW s, NEW wide, NEW down \in BOOLEAN, NEW R \in SUBSET RowsOf(d, s),
         HopCovers(d, s, wide, down),
         NEW b, RoundInv(d, s, wide, down, R, b), b.new = {},
         NEW C, C = Reachable(IdsOf(R), StepOf(d, s, down)),
         \A i \in IdsOf(R) \cup C : Table(d, s)[i] = None => StepOf(d, s, down)[i] = {}
  PROVE  C \subseteq b.seen
<1> DEFINE step == StepOf(d, s, down)
           D == C \cap b.seen
<1>1. IdsOf(R) \in SUBSET Ids /\ step \in [Ids -> SUBSET Ids]
  BY StepType, RowDef DEF IdsOf
<1>2. /\ C \in SUBSET Ids /\ IsClosed(IdsOf(R), step, C)
      /\ \A E \in SUBSET C : IsClosed(IdsOf(R), step, E) => E = C
  BY <1>1, ReachableDef
<1>3. ASSUME NEW i \in IdsOf(R) \cup D PROVE step[i] \subseteq D
  <2>1. step[i] \subseteq C
    BY <1>2 DEF IsClosed
  <2>2. i \in b.seen
    BY DEF RoundInv
  <2>3. step[i] \subseteq b.seen
    <3>1. CASE Table(d, s)[i] = None
      BY <3>1
    <3>2. CASE i \in IdsOf(b.last)
      <4>1. PICK r \in b.last : r.id = i
        BY <3>2 DEF IdsOf
      <4>2. step[i] \subseteq Hop(d, s, wide, down, b.last)
        BY <4>1 DEF HopCovers, RoundInv
      <4> QED BY <4>2 DEF RoundInv
    <3> QED BY <2>2, <3>1, <3>2 DEF RoundInv
  <2> QED BY <2>1, <2>3
<1>4. IsClosed(IdsOf(R), step, D)
  BY <1>3 DEF IsClosed
<1>5. D = C
  BY <1>2, <1>4
<1> QED BY <1>5
(* The rows a search ends with. *)
LEMMA DiscoveredEnd ==
  ASSUME NEW d, IsData(d), NEW s, NEW wide, NEW down \in BOOLEAN, NEW R \in SUBSET RowsOf(d, s),
         HopCovers(d, s, wide, down), IsFiniteSet(Ids)
  PROVE  \E f : \E k \in 0..Cardinality(Ids) :
           /\ IsRounds(f, d, s, wide, down, R, Cardinality(Ids))
           /\ RoundInv(d, s, wide, down, R, f[k]) /\ f[k].new = {}
           /\ Discovered(d, s, wide, down, R, IdsOf(R)) = f[k].found
<1>1. Cardinality(Ids) \in Nat
  BY FS_CardinalityType
<1>2. PICK f : /\ IsRounds(f, d, s, wide, down, R, Cardinality(Ids))
               /\ Discovered(d, s, wide, down, R, IdsOf(R)) = f[LastRound(f)].found
  BY <1>1, DiscoveredDef
<1> DEFINE k == LastRound(f)
<1>3. \E j \in 0..Cardinality(Ids) : f[j].new = {}
  BY <1>2, RoundsEnd
<1>4. k \in 0..Cardinality(Ids) /\ f[k].new = {}
  BY <1>3 DEF LastRound
<1>5. RoundInv(d, s, wide, down, R, f[k])
  BY <1>1, <1>2, <1>4, RoundsKeepInv
<1> QED BY <1>2, <1>4, <1>5

IsDown(down) == down = TRUE
IsUp(down) == down = FALSE

(* Down: nothing is seen but the input and what is below it. *)
LEMMA DownHopCovers ==
  ASSUME NEW d, IsData(d), NEW s, NEW wide, NEW down \in BOOLEAN, IsDown(down)
  PROVE  HopCovers(d, s, wide, down)
BY ForwardHopIsKids DEF HopCovers, Hop, StepOf, IsDown

LEMMA DownIsSound ==
  ASSUME NEW d, IsData(d), NEW s, NEW wide, NEW down \in BOOLEAN, IsDown(down), NEW R \in SUBSET RowsOf(d, s), NEW n \in Nat,
         NEW f, IsRounds(f, d, s, wide, down, R, n),
         NEW C, IsClosed(IdsOf(R), KidsOf(d, s), C)
  PROVE  \A k \in 0..n : f[k].seen \subseteq IdsOf(R) \cup C
<1>1. \A k \in 0..n : RoundInv(d, s, wide, down, R, f[k])
  BY DownHopCovers, RoundsKeepInv
<1> DEFINE S == {k \in Nat : k <= n => f[k].seen \subseteq IdsOf(R) \cup C}
<1>2. 0 \in S
  BY DEF IsRounds, FirstRound
<1>3. ASSUME NEW k \in Nat, k \in S PROVE k + 1 \in S
  <2> SUFFICES ASSUME k + 1 <= n PROVE f[k + 1].seen \subseteq IdsOf(R) \cup C
    OBVIOUS
  <2>1. k \in 0..n /\ k + 1 \in 1..n /\ (k + 1) - 1 = k
    OBVIOUS
  <2>2. f[k + 1].seen = f[k].seen \cup f[k].new
    <3>1. f[k + 1] = NextRound(d, s, wide, down, f[k])
      BY <2>1 DEF IsRounds
    <3> QED BY <3>1, NextRoundDef
  <2>3. f[k].seen \subseteq IdsOf(R) \cup C
    BY <1>3, <2>1
  <2>4. /\ f[k].last \in SUBSET RowsOf(d, s) /\ IdsOf(f[k].last) \subseteq f[k].seen
        /\ f[k].new \subseteq Hop(d, s, wide, down, f[k].last)
    BY <1>1, <2>1 DEF RoundInv
  <2>5. \A r \in f[k].last : KidsOf(d, s)[r.id] \subseteq C
    BY <2>3, <2>4 DEF IsClosed, IdsOf
  <2>6. Hop(d, s, wide, down, f[k].last) = UNION {KidsOf(d, s)[r.id] : r \in f[k].last}
    BY <2>4, ForwardHopIsKids DEF Hop, IsDown
  <2> QED BY <2>2, <2>3, <2>4, <2>5, <2>6
<1>4. Nat \subseteq S
  <2> HIDE DEF S
  <2> QED BY <1>2, <1>3, SetInduction
<1> QED BY <1>4

LEMMA DownReaches ==
  ASSUME NEW d, IsData(d), NEW s, NEW wide, NEW down \in BOOLEAN, IsDown(down), NEW R \in SUBSET RowsOf(d, s), IsFiniteSet(Ids)
  PROVE  Transitive(d, s, wide, down, R) =
           ById(d, s, (Reachable(IdsOf(R), KidsOf(d, s)) \ IdsOf(R)) \cup (IdsOf(R) \cap Relations))
<1> DEFINE C == Reachable(IdsOf(R), KidsOf(d, s))
<1>1. HopCovers(d, s, wide, down) /\ StepOf(d, s, down) = KidsOf(d, s)
  BY DownHopCovers DEF StepOf, IsDown
<1>2. IdsOf(R) \in SUBSET Ids /\ KidsOf(d, s) \in [Ids -> SUBSET Ids]
  BY <1>1, StepType, RowDef DEF IdsOf
<1>3. C \in SUBSET Ids /\ IsClosed(IdsOf(R), KidsOf(d, s), C)
  BY <1>2, ReachableDef
<1> DEFINE IsLast(f, k) == /\ IsRounds(f, d, s, wide, down, R, Cardinality(Ids))
                           /\ RoundInv(d, s, wide, down, R, f[k]) /\ f[k].new = {}
                           /\ Discovered(d, s, wide, down, R, IdsOf(R)) = f[k].found
<1>a. PICK f : \E k \in 0..Cardinality(Ids) : IsLast(f, k)
  BY <1>1, DiscoveredEnd
<1>4. PICK k \in 0..Cardinality(Ids) : IsLast(f, k)
  BY <1>a
<1>5. f[k].seen \subseteq IdsOf(R) \cup C
  BY <1>3, <1>4, FS_CardinalityType, DownIsSound
<1>6. \A i \in IdsOf(R) \cup C : Table(d, s)[i] = None => KidsOf(d, s)[i] = {}
  BY <1>2, <1>3 DEF KidsOf
<1> HIDE DEF C
<1>7. C \subseteq f[k].seen
  BY <1>1, <1>4, <1>6, SearchIsComplete DEF C
<1>8. f[k].seen \ IdsOf(R) = C \ IdsOf(R)
  BY <1>5, <1>7
<1>9. Discovered(d, s, wide, down, R, IdsOf(R)) = ById(d, s, C \ IdsOf(R))
  BY <1>4, <1>8 DEF RoundInv
<1>10. {r \in R : r.id \in Relations} = ById(d, s, IdsOf(R) \cap Relations)
  <2>1. ASSUME NEW r \in ById(d, s, IdsOf(R) \cap Relations) PROVE r \in R /\ r.id \in Relations
    <3>1. r \in RowsOf(d, s) /\ r.id \in IdsOf(R) /\ r.id \in Relations
      BY <2>1 DEF ById
    <3>2. PICK q \in R : q.id = r.id
      BY <3>1 DEF IdsOf
    <3>3. q = r
      BY <3>1, <3>2, RowsAreKnownById
    <3> QED BY <3>1, <3>3
  <2> QED BY <2>1 DEF ById, IdsOf
<1>11. Transitive(d, s, wide, down, R) = ById(d, s, C \ IdsOf(R)) \cup ById(d, s, IdsOf(R) \cap Relations)
  BY <1>9, <1>10 DEF Transitive, IsDown
<1> QED BY <1>11 DEF ById, C

LEMMA DownHolds ==
  ASSUME NEW d, IsData(d), NEW s, NEW wide, IsFiniteSet(Ids)
  PROVE  DownIsReachability(d, s, wide)
<1>1. PICK down \in BOOLEAN : IsDown(down)
  BY DEF IsDown
<1>2. ASSUME NEW R \in SUBSET RowsOf(d, s)
      PROVE  Transitive(d, s, wide, down, R) = Transitive(d, s, wide, TRUE, R)
  BY <1>1 DEF IsDown
<1>3. ASSUME NEW R \in SUBSET RowsOf(d, s)
      PROVE  Transitive(d, s, wide, down, R) =
               ById(d, s, (Reachable(IdsOf(R), KidsOf(d, s)) \ IdsOf(R)) \cup (IdsOf(R) \cap Relations))
  BY <1>1, DownReaches
<1> QED BY <1>2, <1>3 DEF DownIsReachability, KidsOf

-----------------------------------------------------------------------------
(* Up. *)

LEMMA UpHopCovers ==
  ASSUME NEW d, IsData(d), NEW s \in Snapshots, NEW wide \in BOOLEAN, ~(wide /\ IsSnapshot(s)),
         NEW down \in BOOLEAN, IsUp(down)
  PROVE  HopCovers(d, s, wide, down)
BY BackwardHopFinds DEF HopCovers, Hop, StepOf, IsUp

(* What is above something exists. *)
LEMMA AboveExists ==
  ASSUME NEW d, IsData(d), NEW s, NEW R \in SUBSET RowsOf(d, s)
  PROVE  \A i \in Reachable(IdsOf(R), UpOf(d, s)) : Table(d, s)[i] # None
<1> DEFINE C == Reachable(IdsOf(R), UpOf(d, s))
           D == {i \in C : Table(d, s)[i] # None}
<1>1. IdsOf(R) \in SUBSET Ids /\ UpOf(d, s) \in [Ids -> SUBSET Ids]
  BY StepType, RowDef DEF IdsOf, StepOf
<1>2. /\ C \in SUBSET Ids /\ IsClosed(IdsOf(R), UpOf(d, s), C)
      /\ \A E \in SUBSET C : IsClosed(IdsOf(R), UpOf(d, s), E) => E = C
  BY <1>1, ReachableDef
<1> HIDE DEF C
<1>3. IsClosed(IdsOf(R), UpOf(d, s), D)
  <2> SUFFICES ASSUME NEW i \in IdsOf(R) \cup D, NEW p \in UpOf(d, s)[i] PROVE p \in D
    BY DEF IsClosed
  <2>1. p \in C
    BY <1>2 DEF IsClosed
  <2>2. i \in Ids
    BY <1>1, <1>2
  <2>3. Table(d, s)[p] # None
    BY <2>2 DEF UpOf, Parents
  <2> QED BY <2>1, <2>3
<1>4. D = C
  BY <1>2, <1>3
<1> QED BY <1>4 DEF C

LEMMA UpHolds ==
  ASSUME NEW d, IsData(d), NEW s \in Snapshots, NEW wide \in BOOLEAN, IsFiniteSet(Ids)
  PROVE  ParentsAreFound(d, s, wide)
<1>0. PICK down \in BOOLEAN : IsUp(down)
  BY DEF IsUp
<1> SUFFICES ASSUME ~(wide /\ IsSnapshot(s)), NEW R \in SUBSET RowsOf(d, s)
             PROVE  /\ \A i \in IdsOf(R) : UpOf(d, s)[i] \subseteq IdsOf(Backward(d, s, wide, R))
                    /\ Reachable(IdsOf(R), UpOf(d, s)) \ IdsOf(R)
                         \subseteq IdsOf(Transitive(d, s, wide, FALSE, R))
  BY DEF ParentsAreFound, UpOf
<1> DEFINE C == Reachable(IdsOf(R), UpOf(d, s))
<1>1. HopCovers(d, s, wide, down) /\ StepOf(d, s, down) = UpOf(d, s)
  BY <1>0, UpHopCovers DEF StepOf, IsUp
<1>2. IdsOf(R) \in SUBSET Ids /\ UpOf(d, s) \in [Ids -> SUBSET Ids]
  BY <1>1, StepType, RowDef DEF IdsOf
<1>3. C \in SUBSET Ids
  BY <1>2, ReachableDef
<1>4. ASSUME NEW i \in Ids, Table(d, s)[i] # None, NEW ids, i \in ids
      PROVE  i \in IdsOf(ById(d, s, ids))
  <2>1. RowAt(d, s, i) \in RowsOf(d, s) /\ RowAt(d, s, i).id = i
    BY <1>4, RowIsThere
  <2> QED BY <1>4, <2>1 DEF ById, IdsOf
<1>5. ASSUME NEW i \in IdsOf(R), NEW p \in UpOf(d, s)[i]
      PROVE  p \in IdsOf(Backward(d, s, wide, R))
  <2>1. PICK r \in R : r.id = i
    BY DEF IdsOf
  <2>2. p \in BackwardHop(d, s, wide, R, Ids)
    BY <1>5, <2>1, BackwardHopFinds
  <2>3. p \in Ids /\ Table(d, s)[p] # None
    BY <1>2 DEF UpOf, Parents, Ids
  <2> DEFINE hop == BackwardHop(d, s, wide, R, Ids)
  <2>4. Backward(d, s, wide, R) = ById(d, s, hop \cup ParentRelations(d, s, hop \cap Ways))
    BY HydratedIsById DEF Backward
  <2> HIDE DEF hop
  <2> QED BY <1>4, <2>2, <2>3, <2>4 DEF hop
<1>6. ASSUME NEW i \in C \ IdsOf(R)
      PROVE  i \in IdsOf(Transitive(d, s, wide, down, R))
  <2> DEFINE IsLast(f, k) == /\ IsRounds(f, d, s, wide, down, R, Cardinality(Ids))
                             /\ RoundInv(d, s, wide, down, R, f[k]) /\ f[k].new = {}
                             /\ Discovered(d, s, wide, down, R, IdsOf(R)) = f[k].found
  <2>a. PICK f : \E k \in 0..Cardinality(Ids) : IsLast(f, k)
    BY <1>1, DiscoveredEnd
  <2>1. PICK k \in 0..Cardinality(Ids) : IsLast(f, k)
    BY <2>a
  <2>2. \A j \in C : Table(d, s)[j] # None
    BY AboveExists
  <2>3. \A j \in IdsOf(R) : Table(d, s)[j] # None
    BY RowDef DEF IdsOf
  <2> HIDE DEF C
  <2>4. C \subseteq f[k].seen
    BY <1>1, <2>1, <2>2, <2>3, SearchIsComplete DEF C
  <2>5. Transitive(d, s, wide, down, R) = ById(d, s, f[k].seen \ IdsOf(R))
    BY <1>0, <2>1 DEF Transitive, RoundInv, IsUp
  <2>6. i \in Ids /\ Table(d, s)[i] # None /\ i \in f[k].seen \ IdsOf(R)
    BY <1>3, <1>6, <2>2, <2>4
  <2> QED BY <1>4, <2>5, <2>6
<1>7. Transitive(d, s, wide, down, R) = Transitive(d, s, wide, FALSE, R)
  BY <1>0 DEF IsUp
<1> QED BY <1>5, <1>6, <1>7
-----------------------------------------------------------------------------
(* What a job has computed at each of its stages. *)

KeptVersions(h, osh) == [i \in Ids |-> Kept(h, osh, i)]
StatesOfWays(h, v) ==
  [i \in Nodes \cup Ways |-> IF i \in Nodes THEN NodeStates(h, v, i) ELSE WayStates(h, v, i)]
StatesOfAll(h, v) ==
  [i \in Ids |-> IF i \in Relations THEN RelationStates(h, v, StatesOfWays(h, v), i)
                 ELSE StatesOfWays(h, v)[i]]

BuildInv(h, osh) ==
  /\ At("ingested") => job = [stage |-> "ingested", h |-> h, osh |-> osh, v |-> KeptVersions(h, osh)]
  /\ At("ways") => job = [stage |-> "ways", h |-> h, osh |-> osh, v |-> KeptVersions(h, osh),
                          states |-> StatesOfWays(h, KeptVersions(h, osh))]
  /\ At("relations") => job = [stage |-> "relations", h |-> h, osh |-> osh, v |-> KeptVersions(h, osh),
                               states |-> StatesOfAll(h, KeptVersions(h, osh))]
  /\ At("built") => job = [stage |-> "built", h |-> h, osh |-> osh, v |-> KeptVersions(h, osh),
                           rows |-> ByIdRows(h, StatesOfAll(h, KeptVersions(h, osh)))]

IsOther == At("leaves") \/ At("placed") \/ At("order") \/ At("data")
IsBuilding == At("ingested") \/ At("ways") \/ At("relations") \/ At("built")

JobInv ==
  /\ IsBuilding => \E h \in BuildInputs, osh \in BOOLEAN : BuildInv(h, osh)
  /\ At("leaves") \/ At("placed") => job.nodes \in LayoutInputs /\ job.leaves = SelectLeafCells(job.nodes)
  /\ At("placed") => \E p, q \in Corners : job.box = Spanned(p, q)
  /\ At("order") => job.order \in 1..4
  /\ At("data") => job.data \in Datas /\ job.wide \in BOOLEAN /\ job.snap \in Snapshots

LEMMA JobInvInit == Init => JobInv
<1> SUFFICES ASSUME Init PROVE JobInv
  OBVIOUS
<1>1. job = NoInput
  BY DEF Init
<1>2. \A stage \in {"ingested", "ways", "relations", "built", "leaves", "placed", "order", "data"} : ~At(stage)
  BY <1>1 DEF At
<1> QED BY <1>2 DEF JobInv, IsBuilding

LEMMA BuildStarts ==
  ASSUME Ingest
  PROVE  JobInv'
<1>1. PICK h \in BuildInputs, osh \in BOOLEAN :
        job' = [stage |-> "ingested", h |-> h, osh |-> osh, v |-> KeptVersions(h, osh)]
  BY DEF Ingest, KeptVersions
<1>2. ~At("ways")' /\ ~At("relations")' /\ ~At("built")' /\ ~IsOther'
  BY <1>1 DEF At, IsOther
<1>3. BuildInv(h, osh)'
  BY <1>1, <1>2 DEF BuildInv
<1> QED BY <1>2, <1>3 DEF JobInv, IsOther

LEMMA BuildGoesOn ==
  ASSUME JobInv, BuildWays \/ BuildRelations \/ BuildRows
  PROVE  JobInv'
<1>1. IsBuilding
  BY DEF BuildWays, BuildRelations, BuildRows, IsBuilding
<1>2. PICK h \in BuildInputs, osh \in BOOLEAN : BuildInv(h, osh)
  BY <1>1 DEF JobInv, IsOther
<1> DEFINE v == KeptVersions(h, osh)
<1>3. CASE BuildWays
  <2>1. job = [stage |-> "ingested", h |-> h, osh |-> osh, v |-> v]
    BY <1>2, <1>3 DEF BuildInv, BuildWays
  <2>2. job' = [stage |-> "ways", h |-> h, osh |-> osh, v |-> v, states |-> StatesOfWays(h, v)]
    BY <1>3, <2>1 DEF BuildWays, StatesOfWays
  <2>3. ~At("ingested")' /\ ~At("relations")' /\ ~At("built")' /\ ~IsOther'
    BY <2>2 DEF At, IsOther
  <2>4. BuildInv(h, osh)'
    BY <2>2, <2>3 DEF BuildInv
  <2> QED BY <2>3, <2>4 DEF JobInv, IsOther
<1>4. CASE BuildRelations
  <2>1. job = [stage |-> "ways", h |-> h, osh |-> osh, v |-> v, states |-> StatesOfWays(h, v)]
    BY <1>2, <1>4 DEF BuildInv, BuildRelations
  <2>2. job' = [stage |-> "relations", h |-> h, osh |-> osh, v |-> v, states |-> StatesOfAll(h, v)]
    BY <1>4, <2>1 DEF BuildRelations, StatesOfAll
  <2>3. ~At("ingested")' /\ ~At("ways")' /\ ~At("built")' /\ ~IsOther'
    BY <2>2 DEF At, IsOther
  <2>4. BuildInv(h, osh)'
    BY <2>2, <2>3 DEF BuildInv
  <2> QED BY <2>3, <2>4 DEF JobInv, IsOther
<1>5. CASE BuildRows
  <2>1. job = [stage |-> "relations", h |-> h, osh |-> osh, v |-> v, states |-> StatesOfAll(h, v)]
    BY <1>2, <1>5 DEF BuildInv, BuildRows
  <2>2. job' = [stage |-> "built", h |-> h, osh |-> osh, v |-> v,
                rows |-> ByIdRows(h, StatesOfAll(h, v))]
    BY <1>5, <2>1 DEF BuildRows
  <2>3. ~At("ingested")' /\ ~At("ways")' /\ ~At("relations")' /\ ~IsOther'
    BY <2>2 DEF At, IsOther
  <2>4. BuildInv(h, osh)'
    BY <2>2, <2>3 DEF BuildInv
  <2> QED BY <2>3, <2>4 DEF JobInv, IsOther
<1> QED BY <1>3, <1>4, <1>5

LEMMA JobInvStep == JobInv /\ [Next]_job => JobInv'
<1> SUFFICES ASSUME JobInv, [Next]_job PROVE JobInv'
  OBVIOUS
<1>1. CASE job' = job
  BY <1>1 DEF JobInv, IsBuilding, BuildInv, At
<1>2. CASE Ingest
  BY <1>2, BuildStarts
<1>3. CASE BuildWays \/ BuildRelations \/ BuildRows
  BY <1>3, BuildGoesOn
<1>4. CASE SelectLeaves
  <2>1. PICK nodes \in LayoutInputs :
          job' = [stage |-> "leaves", nodes |-> nodes, leaves |-> SelectLeafCells(nodes)]
    BY <1>4 DEF SelectLeaves
  <2>2. ~IsBuilding' /\ ~At("placed")' /\ ~At("order")' /\ ~At("data")'
    BY <2>1 DEF At, IsBuilding
  <2>3. job.nodes' \in LayoutInputs /\ job.leaves' = SelectLeafCells(job.nodes')
    BY <2>1
  <2> QED BY <2>2, <2>3 DEF JobInv
<1>6. CASE Place
  <2>1. PICK p \in Corners, q \in Corners :
          job' = [stage |-> "placed", nodes |-> job.nodes, leaves |-> job.leaves, box |-> Spanned(p, q)]
    BY <1>6 DEF Place
  <2>2. ~IsBuilding' /\ ~At("leaves")' /\ ~At("order")' /\ ~At("data")'
    BY <2>1 DEF At, IsBuilding
  <2>3. job.nodes \in LayoutInputs /\ job.leaves = SelectLeafCells(job.nodes)
    BY <1>6 DEF Place, JobInv
  <2>4. job.nodes' = job.nodes /\ job.leaves' = job.leaves /\ job.box' = Spanned(p, q)
    BY <2>1
  <2> QED BY <2>2, <2>3, <2>4 DEF JobInv
<1>7. CASE TakeOrder
  <2>1. PICK order \in 1..4 : job' = [stage |-> "order", order |-> order]
    BY <1>7 DEF TakeOrder
  <2>2. ~IsBuilding' /\ ~At("leaves")' /\ ~At("placed")' /\ ~At("data")'
    BY <2>1 DEF At, IsBuilding
  <2> QED BY <2>1, <2>2 DEF JobInv
<1>5. CASE TakeData
  <2>1. PICK d \in Datas, wide \in BOOLEAN, s \in Snapshots :
          job' = [stage |-> "data", data |-> d, wide |-> wide, snap |-> s]
    BY <1>5 DEF TakeData
  <2>2. ~IsBuilding' /\ ~At("leaves")' /\ ~At("placed")' /\ ~At("order")'
    BY <2>1 DEF At, IsBuilding
  <2> QED BY <2>1, <2>2 DEF JobInv
<1> QED BY <1>1, <1>2, <1>3, <1>4, <1>5, <1>6, <1>7 DEF Next

(* At every stage a computation holds what its input gives by the          *)
(* operations of the stages before it: the versions kept, the states of    *)
(* ways and relations and the rows of a history, the leaves of the nodes   *)
(* and a box of two corners, an order, data (Ingest to BuildRows,          *)
(* SelectLeaves, Place, TakeOrder, TakeData).                              *)
THEOREM JobInvariant == Spec => []JobInv
BY JobInvInit, JobInvStep, PTL DEF Spec

(* For any data with finitely many elements: >> ends, whatever cycles the  *)
(* membership of relations has, and finds everything below its input, from *)
(* whichever cells and files the rows come (recurse_transitive).           *)
THEOREM RecursionReaches == Spec => []RecursionReachesAll
<1>1. JobInv => RecursionReachesAll
  BY AlgorithmsAssumption, DownHolds DEF JobInv, RecursionReachesAll, IsData
<1> QED BY <1>1, JobInvariant, PTL

(* For any base and any change since: < and << find every parent, whether  *)
(* the cells, the indexes of the base or the delta tiers know it, and <<   *)
(* also every parent of those (backward_new_ids_table,                     *)
(* recurse_transitive).                                                    *)
THEOREM ParentsAreReached == Spec => []RecursionFindsParents
<1>1. JobInv => RecursionFindsParents
  BY AlgorithmsAssumption, UpHolds DEF JobInv, RecursionFindsParents, IsData
<1> QED BY <1>1, JobInvariant, PTL
-----------------------------------------------------------------------------
(* history build: versions and instants. *)

LEMMA TimesAreNumbers == Times \in SUBSET Nat /\ IsFiniteSet(Times) /\ \A t \in Times : t <= LastTime
<1>1. LastTime \in Int
  BY BuildAssumption
<1> QED BY <1>1, FS_Interval DEF Times

LEMMA LastOfDef ==
  ASSUME NEW S \in SUBSET Times, S # {}
  PROVE  MaxOf(S) \in S /\ \A k \in S : k <= MaxOf(S)
<1>1. S \in SUBSET Int /\ IsFiniteSet(S)
  <2>1. IsFiniteSet(S)
    BY TimesAreNumbers, FS_Subset
  <2>2. \A t \in Times : t \in Int
    BY TimesAreNumbers
  <2> QED BY <2>1, <2>2
<1>2. MaxOf(S) = MaxId(S)
  BY DEF MaxOf, MaxId
<1> QED BY <1>1, <1>2, MaxIdDef

LEMMA FirstOfDef ==
  ASSUME NEW S \in SUBSET Times, S # {}
  PROVE  MinOf(S) \in S /\ \A k \in S : MinOf(S) <= k
<1>1. S \in SUBSET Int /\ IsFiniteSet(S)
  <2>1. IsFiniteSet(S)
    BY TimesAreNumbers, FS_Subset
  <2>2. \A t \in Times : t \in Int
    BY TimesAreNumbers
  <2> QED BY <2>1, <2>2
<1>2. MinOf(S) = MinId(S)
  BY DEF MinOf, MinId
<1> QED BY <1>1, <1>2, MinIdDef

(* m is the last instant of S that is not after t. *)
IsAsOf(S, t, m) == m \in S /\ m <= t /\ \A u \in S : u <= t => u <= m

LEMMA AsOfDef ==
  ASSUME NEW S \in SUBSET Times, NEW t \in Int, HasAsOf(S, t)
  PROVE  IsAsOf(S, t, AsOf(S, t))
<1> DEFINE B == {u \in S : u <= t}
<1>1. B \in SUBSET Times /\ B # {}
  BY DEF HasAsOf
<1>2. MaxOf(B) \in B /\ \A k \in B : k <= MaxOf(B)
  BY <1>1, LastOfDef
<1> QED BY <1>2 DEF IsAsOf, AsOf

LEMMA AsOfIsOne ==
  ASSUME NEW S \in SUBSET Times, NEW t \in Int, NEW m, IsAsOf(S, t, m)
  PROVE  HasAsOf(S, t) /\ AsOf(S, t) = m
<1>1. HasAsOf(S, t)
  BY DEF HasAsOf, IsAsOf
<1>2. IsAsOf(S, t, AsOf(S, t))
  BY <1>1, AsOfDef
<1>3. m \in Nat /\ AsOf(S, t) \in Nat
  BY <1>2, TimesAreNumbers DEF IsAsOf
<1> QED BY <1>1, <1>2, <1>3 DEF IsAsOf

LEMMA KeptTypes ==
  ASSUME NEW h, NEW osh, NEW i \in Ids
  PROVE  /\ Kept(h, osh, i) \in SUBSET Read(h, osh, i)
         /\ Read(h, osh, i) \in SUBSET Events(h, i)
         /\ Events(h, i) \in SUBSET Times
BY DEF Kept, Read, Events

(* What is kept of an element is all that was read of it from some instant *)
(* on.                                                                     *)
LEMMA KeptIsATail ==
  ASSUME NEW h, NEW osh, NEW i \in Ids, NEW u \in Kept(h, osh, i), NEW e \in Read(h, osh, i), u <= e
  PROVE  e \in Kept(h, osh, i)
<1> DEFINE known == IF i \in Nodes THEN KnownNodes(h, osh, i)
                    ELSE IF i \in Ways THEN KnownWays(h, osh, i) ELSE KnownRelations(h, osh, i)
<1>1. Kept(h, osh, i) = {t \in Read(h, osh, i) : known # {} /\ t >= MinOf(known)}
  BY DEF Kept
<1>2. known \in SUBSET Times
  BY KeptTypes DEF KnownNodes, KnownWays, KnownRelations
<1> HIDE DEF known
<1>3. known # {} /\ u >= MinOf(known) /\ MinOf(known) \in Times
  BY <1>1, <1>2, FirstOfDef
<1>4. u \in Nat /\ e \in Nat /\ MinOf(known) \in Nat
  BY <1>3, KeptTypes, TimesAreNumbers
<1> QED BY <1>1, <1>3, <1>4

(* Since the start of the history no event is missed. *)
LEMMA KeptIsComplete ==
  ASSUME NEW h, NEW osh \in BOOLEAN, NEW i \in Ids, NEW t \in SinceOf(osh)..LastTime,
         HasAsOf(Kept(h, osh, i), t)
  PROVE  AsOf(Kept(h, osh, i), t) = AsOf(Events(h, i), t)
<1> DEFINE K == Kept(h, osh, i)
           E == Events(h, i)
<1>1. K \in SUBSET Read(h, osh, i) /\ Read(h, osh, i) \in SUBSET E /\ E \in SUBSET Times
  BY KeptTypes
<1>2. t \in Int /\ (~osh => t >= Since) /\ Since \in Nat
  BY BuildAssumption DEF SinceOf
<1>3. HasAsOf(E, t)
  BY <1>1 DEF HasAsOf
<1> DEFINE e == AsOf(E, t)
<1>4. IsAsOf(E, t, e)
  BY <1>1, <1>2, <1>3, AsOfDef
<1>5. PICK u \in K : u <= t
  BY DEF HasAsOf
<1>6. u \in Nat /\ e \in Nat /\ u <= e /\ u \in Read(h, osh, i) /\ e \in E
  BY <1>1, <1>4, <1>5, TimesAreNumbers DEF IsAsOf
<1> HIDE DEF e, K, E
<1>7. e \in Read(h, osh, i)
  <2>1. CASE osh \/ e > Since
    BY <1>6, <2>1 DEF Read, E
  <2>2. CASE ~osh /\ e <= Since
    <3> DEFINE before == {x \in Events(h, i) : x <= Since}
    <3>1. u = MaxOf(before)
      BY <1>2, <1>6, <2>2 DEF Read
    <3>2. e \in before /\ before \in SUBSET Times
      BY <1>1, <1>6, <2>2 DEF E
    <3> HIDE DEF before
    <3>3. e <= u
      BY <3>1, <3>2, LastOfDef
    <3>4. e = u
      BY <1>6, <3>3
    <3> QED BY <1>6, <3>4
  <2> QED BY <1>2, <1>6, <2>1, <2>2
<1>8. e \in K
  BY <1>5, <1>6, <1>7, KeptIsATail DEF K
<1>9. IsAsOf(K, t, e)
  BY <1>1, <1>4, <1>8 DEF IsAsOf
<1>10. K \in SUBSET Times
  BY <1>1
<1>11. AsOf(K, t) = e
  BY <1>2, <1>9, <1>10, AsOfIsOne
<1> QED BY <1>11 DEF e, K, E
-----------------------------------------------------------------------------
(* The states of one element, of which V are the versions: each belongs to *)
(* the version of the instant at which it begins, and only one of a node   *)
(* and one of a way begin together.                                        *)

Vias == {"own", "node", "way"}

IsStates(S, V) ==
  /\ \A s \in S : /\ s.from \in Times /\ s.via \in Vias
                  /\ IsAsOf(V, s.from, s.version)
                  /\ s.via = "own" <=> s.from = s.version
  /\ \A s, x \in S : s.from = x.from => s.box = x.box
  /\ \A s, x \in S : s.from = x.from /\ s.via = x.via => s = x
  /\ \A u \in V : \E s \in S : s.from = u

LEMMA StatesAreFinite ==
  ASSUME NEW S, NEW V, IsStates(S, V)
  PROVE  IsFiniteSet(S)
<1> DEFINE f == [s \in S |-> <<s.from, s.via>>]
<1>1. f \in [S -> Times \X Vias]
  BY DEF IsStates
<1>2. \A s, x \in S : f[s] = f[x] => s = x
  BY DEF IsStates
<1>3. f \in Injection(S, Times \X Vias)
  BY <1>1, <1>2 DEF Injection, IsInjective
<1>4. IsFiniteSet(Vias)
  <2>1. IsFiniteSet({"own"}) /\ IsFiniteSet({"node"}) /\ IsFiniteSet({"way"})
    BY FS_Singleton
  <2>2. Vias = ({"own"} \cup {"node"}) \cup {"way"}
    BY DEF Vias
  <2>3. IsFiniteSet({"own"} \cup {"node"})
    BY <2>1, FS_Union
  <2> QED BY <2>1, <2>2, <2>3, FS_Union
<1>5. IsFiniteSet(Times \X Vias)
  BY <1>4, TimesAreNumbers, FS_Product
<1> HIDE DEF f
<1> QED BY <1>3, <1>5, FS_Injection

(* A window of a version is where the version is the one as of. *)
LEMMA WindowDef ==
  ASSUME NEW v, NEW i, v[i] \in SUBSET Times, NEW own \in v[i], NEW t \in Times
  PROVE  t \in Window(v, i, own) <=> own < t /\ IsAsOf(v[i], t, own)
<1>1. own \in Nat /\ t \in Nat /\ \A u \in v[i] : u \in Nat
  BY TimesAreNumbers
<1> QED BY <1>1 DEF Window, IsAsOf

LEMMA OwnIsAsOf ==
  ASSUME NEW V \in SUBSET Times, NEW u \in V
  PROVE  u \in Times /\ IsAsOf(V, u, u)
BY TimesAreNumbers DEF IsAsOf

LEMMA AsOfUnique ==
  ASSUME NEW V \in SUBSET Times, NEW t \in Times, NEW m, NEW n, IsAsOf(V, t, m), IsAsOf(V, t, n)
  PROVE  m = n
<1>1. m \in Nat /\ n \in Nat
  BY TimesAreNumbers DEF IsAsOf
<1> QED BY <1>1 DEF IsAsOf

LEMMA NodeStatesDef ==
  ASSUME NEW h, NEW v, NEW n, v[n] \in SUBSET Times
  PROVE  IsStates(NodeStates(h, v, n), v[n])
<1>1. \A s \in NodeStates(h, v, n) :
        /\ s.from \in v[n] /\ s.version = s.from /\ s.via = "own"
        /\ s = [from |-> s.from, version |-> s.from, via |-> "own", box |-> PlacesAt(h, v, n, s.from)]
  BY DEF NodeStates
<1>2. ASSUME NEW u \in v[n] PROVE \E s \in NodeStates(h, v, n) : s.from = u
  <2> DEFINE s == [from |-> u, version |-> u, via |-> "own", box |-> PlacesAt(h, v, n, u)]
  <2>1. s \in NodeStates(h, v, n) /\ s.from = u
    BY DEF NodeStates
  <2> QED BY <2>1
<1>3. \A s \in NodeStates(h, v, n) : s.from \in Times /\ IsAsOf(v[n], s.from, s.from)
  BY <1>1, OwnIsAsOf
<1>4. \A s, x \in NodeStates(h, v, n) : s.from = x.from => s = x
  BY <1>1
<1> QED BY <1>1, <1>2, <1>3, <1>4 DEF IsStates, Vias

WayState(h, v, w, f, own, via) ==
  [from |-> f, version |-> own, via |-> via, box |-> WayGeometry(h, v, w, own, f)]

BeginsWayState(h, v, w, f, own, via) ==
  IF via = "own" THEN f = own ELSE IsLive(h, w, own) /\ f \in WayEvents(h, v, w, own)

LEMMA WayStateDef ==
  ASSUME NEW h, NEW v, NEW w
  PROVE  /\ \A s \in WayStates(h, v, w) :
              /\ s.from \in Times /\ s.version \in v[w] /\ s.via \in {"own", "node"}
              /\ BeginsWayState(h, v, w, s.from, s.version, s.via)
              /\ s = WayState(h, v, w, s.from, s.version, s.via)
         /\ \A f \in Times, own \in v[w], via \in {"own", "node"} :
              BeginsWayState(h, v, w, f, own, via) => WayState(h, v, w, f, own, via) \in WayStates(h, v, w)
<1> DEFINE X == {x \in Times \X v[w] \X {"own", "node"} : BeginsWayState(h, v, w, x[1], x[2], x[3])}
<1>1. WayStates(h, v, w) = {WayState(h, v, w, x[1], x[2], x[3]) : x \in X}
  BY DEF WayStates, WayState, BeginsWayState
<1>2. ASSUME NEW s \in WayStates(h, v, w)
      PROVE  /\ s.from \in Times /\ s.version \in v[w] /\ s.via \in {"own", "node"}
             /\ BeginsWayState(h, v, w, s.from, s.version, s.via)
             /\ s = WayState(h, v, w, s.from, s.version, s.via)
  <2>1. PICK x \in X : s = WayState(h, v, w, x[1], x[2], x[3])
    BY <1>1
  <2>2. s.from = x[1] /\ s.version = x[2] /\ s.via = x[3]
    BY <2>1 DEF WayState
  <2> QED BY <2>1, <2>2
<1>3. ASSUME NEW f \in Times, NEW own \in v[w], NEW via \in {"own", "node"},
             BeginsWayState(h, v, w, f, own, via)
      PROVE  WayState(h, v, w, f, own, via) \in WayStates(h, v, w)
  <2>1. <<f, own, via>> \in X
    BY <1>3
  <2>2. WayState(h, v, w, <<f, own, via>>[1], <<f, own, via>>[2], <<f, own, via>>[3])
          \in {WayState(h, v, w, x[1], x[2], x[3]) : x \in X}
    BY <2>1
  <2> QED BY <1>1, <2>2
<1> QED BY <1>2, <1>3

(* What makes states that begin at an instant in the window of their       *)
(* version, or with it, the states of an element.                          *)
LEMMA StatesByWindow ==
  ASSUME NEW v, NEW i, v[i] \in SUBSET Times, NEW S,
         \A s \in S : /\ s.from \in Times /\ s.version \in v[i] /\ s.via \in Vias
                      /\ IF s.via = "own" THEN s.from = s.version ELSE s.from \in Window(v, i, s.version),
         \A s, x \in S : s.from = x.from /\ s.version = x.version => s.box = x.box,
         \A s, x \in S : s.from = x.from /\ s.version = x.version /\ s.via = x.via => s = x,
         \A u \in v[i] : \E s \in S : s.from = u
  PROVE  IsStates(S, v[i])
<1>1. ASSUME NEW s \in S
      PROVE  IsAsOf(v[i], s.from, s.version) /\ (s.via = "own" <=> s.from = s.version)
  <2>1. CASE s.via = "own"
    BY <2>1, OwnIsAsOf
  <2>2. CASE s.via # "own"
    <3>1. s.version < s.from /\ IsAsOf(v[i], s.from, s.version)
      BY <2>2, WindowDef
    <3>2. s.version \in Nat /\ s.from \in Nat
      BY TimesAreNumbers
    <3> QED BY <2>2, <3>1, <3>2
  <2> QED BY <2>1, <2>2
<1>2. \A s, x \in S : s.from = x.from => s.version = x.version
  BY <1>1, AsOfUnique
<1> QED BY <1>1, <1>2 DEF IsStates

LEMMA WayStatesAreStates ==
  ASSUME NEW h, NEW v, NEW w, v[w] \in SUBSET Times
  PROVE  IsStates(WayStates(h, v, w), v[w])
<1> DEFINE S == WayStates(h, v, w)
<1>1. \A s \in S : /\ s.from \in Times /\ s.version \in v[w] /\ s.via \in Vias
                   /\ IF s.via = "own" THEN s.from = s.version ELSE s.from \in Window(v, w, s.version)
  BY WayStateDef DEF BeginsWayState, WayEvents, Vias
<1>2. \A s \in S : s = WayState(h, v, w, s.from, s.version, s.via)
  BY WayStateDef
<1>3. \A s \in S : s.box = WayGeometry(h, v, w, s.version, s.from)
  BY <1>2 DEF WayState
<1>4. ASSUME NEW u \in v[w] PROVE \E s \in S : s.from = u
  <2>1. WayState(h, v, w, u, u, "own") \in S
    BY WayStateDef DEF BeginsWayState
  <2>2. WayState(h, v, w, u, u, "own").from = u
    BY DEF WayState
  <2> QED BY <2>1, <2>2
<1> HIDE DEF S
<1>5. \A s, x \in S : s.from = x.from /\ s.version = x.version => s.box = x.box
  BY <1>3
<1>6. \A s, x \in S : s.from = x.from /\ s.version = x.version /\ s.via = x.via => s = x
  BY <1>2
<1>7. IsStates(S, v[w])
  BY <1>1, <1>4, <1>5, <1>6, StatesByWindow
<1> QED BY <1>7 DEF S

RelationState(h, v, ws, r, f, own, via) ==
  [from |-> f, version |-> own, via |-> via, box |-> RelationBox(h, v, ws, r, own, f)]

BeginsRelationState(h, v, ws, r, f, own, via) ==
  IF via = "own" THEN f = own ELSE IsLive(h, r, own) /\ f \in RelationEvents(h, v, ws, r, own, via)

LEMMA RelationStateDef ==
  ASSUME NEW h, NEW v, NEW ws, NEW r
  PROVE  /\ \A s \in RelationStates(h, v, ws, r) :
              /\ s.from \in Times /\ s.version \in v[r] /\ s.via \in Vias
              /\ BeginsRelationState(h, v, ws, r, s.from, s.version, s.via)
              /\ s = RelationState(h, v, ws, r, s.from, s.version, s.via)
         /\ \A f \in Times, own \in v[r], via \in Vias :
              BeginsRelationState(h, v, ws, r, f, own, via) =>
                RelationState(h, v, ws, r, f, own, via) \in RelationStates(h, v, ws, r)
<1> DEFINE X == {x \in Times \X v[r] \X Vias : BeginsRelationState(h, v, ws, r, x[1], x[2], x[3])}
<1>1. RelationStates(h, v, ws, r) = {RelationState(h, v, ws, r, x[1], x[2], x[3]) : x \in X}
  BY DEF RelationStates, RelationState, BeginsRelationState, Vias
<1>2. ASSUME NEW s \in RelationStates(h, v, ws, r)
      PROVE  /\ s.from \in Times /\ s.version \in v[r] /\ s.via \in Vias
             /\ BeginsRelationState(h, v, ws, r, s.from, s.version, s.via)
             /\ s = RelationState(h, v, ws, r, s.from, s.version, s.via)
  <2>1. PICK x \in X : s = RelationState(h, v, ws, r, x[1], x[2], x[3])
    BY <1>1
  <2>2. s.from = x[1] /\ s.version = x[2] /\ s.via = x[3]
    BY <2>1 DEF RelationState
  <2> QED BY <2>1, <2>2
<1>3. ASSUME NEW f \in Times, NEW own \in v[r], NEW via \in Vias,
             BeginsRelationState(h, v, ws, r, f, own, via)
      PROVE  RelationState(h, v, ws, r, f, own, via) \in RelationStates(h, v, ws, r)
  <2>1. <<f, own, via>> \in X
    BY <1>3
  <2>2. RelationState(h, v, ws, r, <<f, own, via>>[1], <<f, own, via>>[2], <<f, own, via>>[3])
          \in {RelationState(h, v, ws, r, x[1], x[2], x[3]) : x \in X}
    BY <2>1
  <2> QED BY <1>1, <2>2
<1> QED BY <1>2, <1>3

LEMMA RelationStatesAreStates ==
  ASSUME NEW h, NEW v, NEW ws, NEW r, v[r] \in SUBSET Times
  PROVE  IsStates(RelationStates(h, v, ws, r), v[r])
<1> DEFINE S == RelationStates(h, v, ws, r)
<1>1. \A s \in S : /\ s.from \in Times /\ s.version \in v[r] /\ s.via \in Vias
                   /\ IF s.via = "own" THEN s.from = s.version ELSE s.from \in Window(v, r, s.version)
  BY RelationStateDef DEF BeginsRelationState, RelationEvents
<1>2. \A s \in S : s = RelationState(h, v, ws, r, s.from, s.version, s.via)
  BY RelationStateDef
<1>3. \A s \in S : s.box = RelationBox(h, v, ws, r, s.version, s.from)
  BY <1>2 DEF RelationState
<1>4. ASSUME NEW u \in v[r] PROVE \E s \in S : s.from = u
  <2>1. RelationState(h, v, ws, r, u, u, "own") \in S
    BY RelationStateDef DEF BeginsRelationState, Vias
  <2>2. RelationState(h, v, ws, r, u, u, "own").from = u
    BY DEF RelationState
  <2> QED BY <2>1, <2>2
<1> HIDE DEF S
<1>5. \A s, x \in S : s.from = x.from /\ s.version = x.version => s.box = x.box
  BY <1>3
<1>6. \A s, x \in S : s.from = x.from /\ s.version = x.version /\ s.via = x.via => s = x
  BY <1>2
<1>7. IsStates(S, v[r])
  BY <1>1, <1>4, <1>5, <1>6, StatesByWindow
<1> QED BY <1>7 DEF S
-----------------------------------------------------------------------------
(* The rows of the states. *)

Minor(S, s) == Cardinality({x \in S : x.version = s.version /\ Before(x, s)})

LEMMA RowFields ==
  ASSUME NEW h, NEW i, NEW S, NEW s
  PROVE  /\ Row(h, i, S, s).id = i /\ Row(h, i, S, s).from = s.from
         /\ Row(h, i, S, s).version = s.version /\ Row(h, i, S, s).minor = Minor(S, s)
         /\ Row(h, i, S, s).live = IsLive(h, i, s.version)
         /\ Row(h, i, S, s).cell = CellFilled(i, S, s) /\ Row(h, i, S, s).box = s.box
BY DEF Row, Minor

LEMMA MinorIsANumber ==
  ASSUME NEW S, NEW V, IsStates(S, V), NEW s
  PROVE  Minor(S, s) \in Nat
<1> DEFINE A == {x \in S : x.version = s.version /\ Before(x, s)}
<1>1. IsFiniteSet(S)
  BY StatesAreFinite
<1>2. A \in SUBSET S
  OBVIOUS
<1>3. IsFiniteSet(A)
  BY <1>1, <1>2, FS_Subset
<1> QED BY <1>3, FS_CardinalityType DEF Minor

(* Two states that begin together are one of a node and one of a way, and  *)
(* the minor version of the latter is greater.                             *)
LEMMA MinorsDiffer ==
  ASSUME NEW V \in SUBSET Times, NEW S, IsStates(S, V), NEW s \in S, NEW x \in S,
         s.from = x.from, s # x
  PROVE  \/ s.via = "node" /\ x.via = "way" /\ Minor(S, s) < Minor(S, x)
         \/ x.via = "node" /\ s.via = "way" /\ Minor(S, x) < Minor(S, s)
<1>1. s.version = x.version
  BY AsOfUnique DEF IsStates
<1>2. \/ s.via = "node" /\ x.via = "way"
      \/ x.via = "node" /\ s.via = "way"
  BY <1>1 DEF IsStates, Vias
<1>3. ASSUME NEW a \in S, NEW b \in S, a.from = b.from, a.version = b.version,
             a.via = "node", b.via = "way"
      PROVE  Minor(S, a) < Minor(S, b)
  <2> DEFINE A == {y \in S : y.version = a.version /\ Before(y, a)}
             B == {y \in S : y.version = b.version /\ Before(y, b)}
  <2>1. \A y \in S : y.from \in Nat
    BY TimesAreNumbers DEF IsStates
  <2>2. A \in SUBSET B
    BY <1>3, <2>1 DEF Before
  <2>3. a \in B /\ a \notin A
    BY <1>3, <2>1 DEF Before
  <2>4. IsFiniteSet(B)
    <3>1. IsFiniteSet(S) /\ B \in SUBSET S
      BY StatesAreFinite
    <3> QED BY <3>1, FS_Subset
  <2>5. Minor(S, a) = Cardinality(A) /\ Minor(S, b) = Cardinality(B)
    BY DEF Minor
  <2> HIDE DEF A, B
  <2>6. Cardinality(A) <= Cardinality(B) /\ Cardinality(A) # Cardinality(B)
    BY <2>2, <2>3, <2>4, FS_Subset
  <2>7. Cardinality(A) \in Nat /\ Cardinality(B) \in Nat
    BY <2>5, MinorIsANumber
  <2> QED BY <2>5, <2>6, <2>7
<1> QED BY <1>1, <1>2, <1>3

(* The last state at t. *)
IsLastState(S, t, s) ==
  /\ s \in S /\ s.from <= t
  /\ \A x \in S : x.from <= t =>
       x = s \/ x.from < s.from \/ (x.from = s.from /\ x.via = "node" /\ s.via = "way")

LEMMA LastStateExists ==
  ASSUME NEW V \in SUBSET Times, NEW S, IsStates(S, V), NEW t \in Int,
         NEW y \in S, y.from <= t
  PROVE  \E s \in S : IsLastState(S, t, s)
<1> DEFINE F == {x.from : x \in {z \in S : z.from <= t}}
<1>1. F \in SUBSET Times /\ y.from \in F
  BY DEF IsStates
<1>2. MaxOf(F) \in F /\ \A k \in F : k <= MaxOf(F)
  BY <1>1, LastOfDef
<1>3. PICK m \in S : m.from <= t /\ \A x \in S : x.from <= t => x.from <= m.from
  BY <1>2
<1> HIDE DEF F
<1>4. \A x \in S : x.from \in Nat
  BY TimesAreNumbers DEF IsStates
<1>5. CASE \E w \in S : w.from = m.from /\ w.via = "way"
  <2>1. PICK w \in S : w.from = m.from /\ w.via = "way"
    BY <1>5
  <2>2. ASSUME NEW x \in S, x.from <= t, x # w
        PROVE  x.from < w.from \/ (x.from = w.from /\ x.via = "node")
    <3>1. x.from <= w.from
      BY <1>3, <2>1, <2>2
    <3>2. x.from = w.from => x.via = "node"
      BY <2>1, <2>2, MinorsDiffer
    <3> QED BY <1>4, <3>1, <3>2
  <2>3. IsLastState(S, t, w)
    BY <1>3, <2>1, <2>2 DEF IsLastState
  <2> QED BY <2>3
<1>6. CASE ~ \E w \in S : w.from = m.from /\ w.via = "way"
  <2>1. ASSUME NEW x \in S, x.from <= t, x # m PROVE x.from < m.from
    <3>1. x.from <= m.from
      BY <1>3, <2>1
    <3>2. x.from # m.from
      BY <1>6, <2>1, MinorsDiffer
    <3> QED BY <1>4, <3>1, <3>2
  <2>2. IsLastState(S, t, m)
    BY <1>3, <2>1 DEF IsLastState
  <2> QED BY <2>2
<1> QED BY <1>5, <1>6

LEMMA LastStateIsOne ==
  ASSUME NEW V \in SUBSET Times, NEW S, IsStates(S, V), NEW t \in Int,
         NEW s, NEW x, IsLastState(S, t, s), IsLastState(S, t, x)
  PROVE  s = x
<1>1. s.from \in Nat /\ x.from \in Nat
  BY TimesAreNumbers DEF IsStates, IsLastState
<1> QED BY <1>1 DEF IsLastState

AreStates(states, v) == \A i \in Ids : v[i] \in SUBSET Times /\ IsStates(states[i], v[i])

LEMMA ByIdRowsDef ==
  ASSUME NEW h, NEW states, NEW r
  PROVE  r \in ByIdRows(h, states) <=> \E i \in Ids : \E s \in states[i] : r = Row(h, i, states[i], s)
BY DEF ByIdRows

(* The rows valid at t are those of the last states. *)
LEMMA ValidRows ==
  ASSUME NEW h, NEW states, NEW v, AreStates(states, v), NEW t \in Int, NEW r
  PROVE  r \in ValidStates(ByIdRows(h, states), t)
           <=> \E i \in Ids : \E s \in states[i] : r = Row(h, i, states[i], s) /\ IsLastState(states[i], t, s)
<1> DEFINE R == ByIdRows(h, states)
<1>1. ASSUME NEW i \in Ids, NEW s \in states[i], NEW x \in states[i], IsLastState(states[i], t, s), x.from <= t
      PROVE  ~Later(Row(h, i, states[i], x), Row(h, i, states[i], s))
  <2> DEFINE S == states[i]
  <2>1. IsStates(S, v[i]) /\ v[i] \in SUBSET Times
    BY DEF AreStates
  <2>2. s.from \in Nat /\ x.from \in Nat /\ Minor(S, s) \in Nat /\ Minor(S, x) \in Nat
    BY <2>1, TimesAreNumbers, MinorIsANumber DEF IsStates
  <2>3. x = s \/ x.from < s.from \/ (x.from = s.from /\ Minor(S, x) < Minor(S, s))
    <3>1. x = s \/ x.from < s.from \/ (x.from = s.from /\ x.via = "node" /\ s.via = "way")
      BY <1>1 DEF IsLastState
    <3>2. CASE x # s /\ x.from = s.from /\ x.via = "node" /\ s.via = "way"
      BY <2>1, <3>2, MinorsDiffer
    <3> QED BY <3>1, <3>2
  <2> HIDE DEF S
  <2>4. ~(x.from > s.from \/ (x.from = s.from /\ Minor(S, x) > Minor(S, s)))
    BY <2>2, <2>3
  <2>5. /\ Row(h, i, S, x).from = x.from /\ Row(h, i, S, x).minor = Minor(S, x)
        /\ Row(h, i, S, s).from = s.from /\ Row(h, i, S, s).minor = Minor(S, s)
    BY RowFields
  <2> QED BY <2>4, <2>5 DEF Later, S
<1>2. ASSUME NEW i \in Ids, NEW s \in states[i], r = Row(h, i, states[i], s), IsLastState(states[i], t, s)
      PROVE  r \in ValidStates(R, t)
  <2>1. r \in R /\ r.from <= t
    BY <1>2, ByIdRowsDef, RowFields DEF IsLastState
  <2>2. ASSUME NEW q \in R, Later(q, r), q.from <= t PROVE FALSE
    <3>1. PICK j \in Ids : \E x \in states[j] : q = Row(h, j, states[j], x)
      BY ByIdRowsDef
    <3>2. PICK x \in states[j] : q = Row(h, j, states[j], x)
      BY <3>1
    <3>3. j = i /\ x.from <= t
      BY <1>2, <2>2, <3>2, RowFields DEF Later
    <3> QED BY <1>1, <1>2, <2>2, <3>2, <3>3
  <2> QED BY <2>1, <2>2 DEF ValidStates
<1>3. ASSUME r \in ValidStates(R, t)
      PROVE  \E i \in Ids : \E s \in states[i] : r = Row(h, i, states[i], s) /\ IsLastState(states[i], t, s)
  <2>1. r \in R /\ r.from <= t /\ ~ \E q \in R : Later(q, r) /\ q.from <= t
    BY <1>3 DEF ValidStates
  <2>2. PICK i \in Ids : \E s \in states[i] : r = Row(h, i, states[i], s)
    BY <2>1, ByIdRowsDef
  <2>3. PICK s \in states[i] : r = Row(h, i, states[i], s)
    BY <2>2
  <2> DEFINE S == states[i]
  <2>4. IsStates(S, v[i]) /\ v[i] \in SUBSET Times
    BY DEF AreStates
  <2>5. s.from <= t
    BY <2>1, <2>3, RowFields
  <2>6. PICK x \in S : IsLastState(S, t, x)
    BY <2>4, <2>5, LastStateExists
  <2>7. x = s
    <3> SUFFICES ASSUME x # s PROVE FALSE
      OBVIOUS
    <3>1. s.from \in Nat /\ x.from \in Nat /\ x.from <= t
      BY <2>4, <2>6, TimesAreNumbers DEF IsStates, IsLastState
    <3>2. s.from < x.from \/ (s.from = x.from /\ s.via = "node" /\ x.via = "way")
      BY <2>5, <2>6 DEF IsLastState
    <3>3. s.from < x.from \/ (s.from = x.from /\ Minor(S, s) < Minor(S, x))
      BY <2>4, <3>2, MinorsDiffer
    <3>4. Minor(S, s) \in Nat /\ Minor(S, x) \in Nat
      BY <2>4, MinorIsANumber
    <3> DEFINE q == Row(h, i, S, x)
    <3>5. /\ q.id = i /\ q.from = x.from /\ q.minor = Minor(S, x)
          /\ r.id = i /\ r.from = s.from /\ r.minor = Minor(S, s)
      BY <2>3, RowFields
    <3>6. q \in R
      BY ByIdRowsDef
    <3> HIDE DEF q, R, S
    <3>7. Later(q, r)
      BY <3>1, <3>3, <3>4, <3>5 DEF Later
    <3> QED BY <2>1, <3>1, <3>5, <3>6, <3>7
  <2> QED BY <2>3, <2>6, <2>7
<1> QED BY <1>2, <1>3
(* One row of an element is valid at t, so that the order in which reads   *)
(* prefer rows does not matter.                                            *)
LEMMA ValidIsTheState ==
  ASSUME NEW h, NEW states, NEW v, AreStates(states, v), NEW t \in Int
  PROVE  /\ \A r, q \in ValidStates(ByIdRows(h, states), t) : r.id = q.id => r = q
         /\ BuiltByIdAt(ByIdRows(h, states), t) = ValidStates(ByIdRows(h, states), t)
<1> DEFINE V == ValidStates(ByIdRows(h, states), t)
<1>1. ASSUME NEW r \in V, NEW q \in V, r.id = q.id PROVE r = q
  <2>1. PICK i \in Ids : \E s \in states[i] : r = Row(h, i, states[i], s) /\ IsLastState(states[i], t, s)
    BY ValidRows
  <2>2. PICK s \in states[i] : r = Row(h, i, states[i], s) /\ IsLastState(states[i], t, s)
    BY <2>1
  <2>3. PICK j \in Ids : \E x \in states[j] : q = Row(h, j, states[j], x) /\ IsLastState(states[j], t, x)
    BY ValidRows
  <2>4. PICK x \in states[j] : q = Row(h, j, states[j], x) /\ IsLastState(states[j], t, x)
    BY <2>3
  <2>5. i = j
    BY <1>1, <2>2, <2>4, RowFields
  <2>6. s = x
    BY <2>2, <2>4, <2>5, LastStateIsOne DEF AreStates
  <2> QED BY <2>2, <2>4, <2>5, <2>6
<1>2. ASSUME NEW r \in V PROVE r.from \in Nat /\ r.version \in Nat /\ r.minor \in Nat
  <2>1. PICK i \in Ids : \E s \in states[i] : r = Row(h, i, states[i], s)
    BY ValidRows
  <2>2. PICK s \in states[i] : r = Row(h, i, states[i], s)
    BY <2>1
  <2>3. r.from = s.from /\ r.version = s.version /\ r.minor = Minor(states[i], s)
    BY <2>2, RowFields
  <2>4. IsStates(states[i], v[i]) /\ v[i] \in SUBSET Times
    BY DEF AreStates
  <2>5. s.from \in Nat /\ s.version \in Nat
    BY <2>4, TimesAreNumbers DEF IsStates, IsAsOf
  <2> QED BY <2>3, <2>4, <2>5, MinorIsANumber
<1>3. \A r \in V : ~IsNewer(r, r)
  BY <1>2 DEF IsNewer
<1>4. \A r \in V : ~ \E s \in V : s.id = r.id /\ IsNewer(s, r)
  BY <1>1, <1>3
<1> HIDE DEF V
<1>5. StateAt(V) = V
  BY <1>4 DEF StateAt
<1> QED BY <1>1, <1>5 DEF BuiltByIdAt, V

-----------------------------------------------------------------------------
(* What the last state of an element is. *)

LEMMA LastStateIsOfTheLastVersion ==
  ASSUME NEW V \in SUBSET Times, NEW S, IsStates(S, V), NEW t \in Int, NEW s, IsLastState(S, t, s)
  PROVE  IsAsOf(V, t, s.version)
<1>1. s \in S /\ s.from \in Nat /\ s.from <= t /\ IsAsOf(V, s.from, s.version) /\ s.version \in Nat
  BY TimesAreNumbers DEF IsStates, IsLastState, IsAsOf
<1>2. ASSUME NEW u \in V, u <= t PROVE u <= s.version
  <2>1. PICK x \in S : x.from = u
    BY DEF IsStates
  <2>2. u \in Nat /\ u <= s.from
    BY <1>1, <1>2, <2>1, TimesAreNumbers DEF IsLastState
  <2> QED BY <1>1, <2>2 DEF IsAsOf
<1>3. s.version <= t
  BY <1>1 DEF IsAsOf
<1> QED BY <1>1, <1>2, <1>3 DEF IsAsOf

LEMMA LastStateIffKnown ==
  ASSUME NEW V \in SUBSET Times, NEW S, IsStates(S, V), NEW t \in Int
  PROVE  (\E s \in S : IsLastState(S, t, s)) <=> HasAsOf(V, t)
<1>1. ASSUME NEW s \in S, IsLastState(S, t, s) PROVE HasAsOf(V, t)
  BY <1>1, LastStateIsOfTheLastVersion DEF HasAsOf, IsAsOf
<1>2. ASSUME HasAsOf(V, t) PROVE \E s \in S : IsLastState(S, t, s)
  <2>1. PICK u \in V : u <= t
    BY <1>2 DEF HasAsOf
  <2>2. PICK x \in S : x.from = u
    BY DEF IsStates
  <2> QED BY <2>1, <2>2, LastStateExists
<1> QED BY <1>1, <1>2

(* No version in between: a node is where it was. *)
LEMMA PlacesStay ==
  ASSUME NEW h, NEW v, NEW n, NEW a, NEW t,
         {u \in v[n] : u <= a} = {u \in v[n] : u <= t}
  PROVE  PlacesAt(h, v, n, a) = PlacesAt(h, v, n, t)
<1>1. HasAsOf(v[n], a) <=> HasAsOf(v[n], t)
  BY DEF HasAsOf
<1>2. AsOf(v[n], a) = AsOf(v[n], t)
  BY DEF AsOf
<1> QED BY <1>1, <1>2 DEF PlacesAt

LEMMA PlacesAreShown ==
  ASSUME NEW h, NEW v, NEW M, \A n \in M : v[n] \in SUBSET Times,
         NEW a \in Int, NEW t \in Int, a <= t,
         \A n \in M : Cardinality(v[n]) > 1 => \A u \in v[n] : ~(a < u /\ u <= t)
  PROVE  UNION {PlacesAt(h, v, n, a) : n \in M} = ShownPlaces(h, v, M, a, t)
<1> DEFINE IsHidden(n) == Cardinality(v[n]) = 1 /\ \A u \in v[n] : u > a
<1>1. ASSUME NEW n \in M, IsHidden(n) PROVE PlacesAt(h, v, n, a) = {}
  <2>1. \A u \in v[n] : u \in Nat /\ u > a
    BY <1>1, TimesAreNumbers
  <2>2. ~HasAsOf(v[n], a)
    BY <2>1 DEF HasAsOf
  <2> QED BY <2>2 DEF PlacesAt
<1>2. ASSUME NEW n \in M, ~IsHidden(n) PROVE PlacesAt(h, v, n, a) = PlacesAt(h, v, n, t)
  <2>1. v[n] \in SUBSET Times /\ \A u \in v[n] : u \in Nat
    BY TimesAreNumbers
  <2>2. IsFiniteSet(v[n])
    BY <2>1, TimesAreNumbers, FS_Subset
  <2>3. Cardinality(v[n]) \in Nat
    BY <2>2, FS_CardinalityType
  <2>4. \A u \in v[n] : u <= t => u <= a
    <3>1. CASE Cardinality(v[n]) > 1
      BY <2>1, <3>1
    <3>2. CASE Cardinality(v[n]) = 1
      <4>1. PICK x : v[n] = {x}
        BY <2>2, <3>2, FS_Singleton
      <4>2. PICK u \in v[n] : ~(u > a)
        BY <1>2, <3>2
      <4> QED BY <2>1, <4>1, <4>2
    <3>3. CASE Cardinality(v[n]) = 0
      <4>1. v[n] = {}
        BY <2>2, <3>3, FS_EmptySet
      <4> QED BY <4>1
    <3> QED BY <2>3, <3>1, <3>2, <3>3
  <2>5. {u \in v[n] : u <= a} = {u \in v[n] : u <= t}
    BY <2>1, <2>4
  <2> QED BY <2>5, PlacesStay
<1>3. ShownPlaces(h, v, M, a, t) = UNION {PlacesAt(h, v, n, t) : n \in {x \in M : ~IsHidden(x)}}
  BY DEF ShownPlaces
<1> HIDE DEF IsHidden
<1> QED BY <1>1, <1>2, <1>3

(* The box of a way when no state of it begins in between. *)
LEMMA WayBoxStays ==
  ASSUME NEW V \in SUBSET Times, NEW S, IsStates(S, V), NEW a \in Int, NEW t \in Int, a <= t,
         \A x \in S : ~(a < x.from /\ x.from <= t)
  PROVE  /\ \A s \in S : IsLastState(S, t, s) => WayBoxAt(S, a) = s.box
         /\ ~HasAsOf(V, t) => WayBoxAt(S, a) = {}
<1> DEFINE earlier == {x \in S : x.from <= a}
           last == {x \in earlier : \A y \in earlier : y.from <= x.from}
<1>1. WayBoxAt(S, a) = UNION {x.box : x \in last}
  BY DEF WayBoxAt
<1>2. \A x \in S : x.from \in Nat
  BY TimesAreNumbers DEF IsStates
<1>3. \A x \in S : x.from <= a <=> x.from <= t
  BY <1>2
<1>4. ASSUME NEW s \in S, IsLastState(S, t, s) PROVE WayBoxAt(S, a) = s.box
  <2>1. s \in last
    <3>1. s \in earlier
      BY <1>3, <1>4 DEF IsLastState
    <3>2. \A y \in earlier : y.from <= s.from
      BY <1>2, <1>3, <1>4 DEF IsLastState
    <3> QED BY <3>1, <3>2
  <2>2. \A x \in last : x.from = s.from
    BY <1>2, <2>1
  <2>3. \A x \in last : x.box = s.box
    BY <2>2 DEF IsStates
  <2> HIDE DEF last
  <2> QED BY <1>1, <2>1, <2>3
<1>5. ASSUME ~HasAsOf(V, t) PROVE WayBoxAt(S, a) = {}
  <2>1. earlier = {}
    <3> SUFFICES ASSUME NEW x \in S, x.from <= a PROVE FALSE
      OBVIOUS
    <3>1. x.from <= t
      BY <1>2
    <3>2. \E s \in S : IsLastState(S, t, s)
      BY <3>1, LastStateExists
    <3> QED BY <1>5, <3>2, LastStateIffKnown
  <2> QED BY <1>1, <2>1
<1> QED BY <1>4, <1>5
-----------------------------------------------------------------------------
(* What a build has made of an input. *)

LEMMA BuiltStatesDef ==
  ASSUME NEW h, NEW v
  PROVE  /\ \A n \in Nodes : StatesOfAll(h, v)[n] = NodeStates(h, v, n)
         /\ \A w \in Ways : StatesOfAll(h, v)[w] = WayStates(h, v, w) /\ StatesOfWays(h, v)[w] = WayStates(h, v, w)
         /\ \A r \in Relations : StatesOfAll(h, v)[r] = RelationStates(h, v, StatesOfWays(h, v), r)
<1>1. /\ \A n \in Nodes : n \notin Ways /\ n \notin Relations
      /\ \A w \in Ways : w \notin Nodes /\ w \notin Relations
  BY BuildAssumption
<1> QED BY <1>1 DEF StatesOfAll, StatesOfWays, Ids

LEMMA BuiltStatesAreStates ==
  ASSUME NEW h, NEW osh
  PROVE  AreStates(StatesOfAll(h, KeptVersions(h, osh)), KeptVersions(h, osh))
<1> DEFINE v == KeptVersions(h, osh)
<1>1. \A i \in Ids : v[i] \in SUBSET Times
  BY KeptTypes DEF KeptVersions
<1> HIDE DEF v
<1>2. ASSUME NEW i \in Ids PROVE IsStates(StatesOfAll(h, v)[i], v[i])
  <2>1. CASE i \in Nodes
    BY <1>1, <2>1, BuiltStatesDef, NodeStatesDef
  <2>2. CASE i \in Ways
    BY <1>1, <2>2, BuiltStatesDef, WayStatesAreStates
  <2>3. CASE i \in Relations
    BY <1>1, <2>3, BuiltStatesDef, RelationStatesAreStates
  <2> QED BY <2>1, <2>2, <2>3 DEF Ids
<1> QED BY <1>1, <1>2 DEF AreStates, v

LEMMA InputMembers ==
  ASSUME NEW h, IsInput(h), NEW i \in Ways \cup Relations, NEW own \in Events(h, i), IsLive(h, i, own)
  PROVE  h[i][own] \subseteq Nodes \cup Ways /\ (i \in Ways => h[i][own] \subseteq Nodes)
<1>1. own \in Times /\ h[i][own] # None /\ h[i][own] # Del
  BY DEF Events, IsLive
<1>2. CASE i \in Ways
  <2>1. h[i] \in [Times -> {None, Del} \cup SUBSET Nodes]
    BY <1>2 DEF IsInput, Histories
  <2> QED BY <1>1, <2>1
<1>3. CASE i \in Relations
  <2>1. h[i] \in [Times -> {None, Del} \cup SUBSET (Nodes \cup Ways)]
    BY <1>3 DEF IsInput, Histories
  <2>2. i \notin Ways
    BY <1>3, BuildAssumption
  <2> QED BY <1>1, <2>1, <2>2
<1> QED BY <1>2, <1>3

LEMMA NodeAnswer ==
  ASSUME NEW h, NEW v, NEW n, v[n] \in SUBSET Times, NEW t \in Int,
         NEW s, IsLastState(NodeStates(h, v, n), t, s)
  PROVE  s.box = PlacesAt(h, v, n, t)
<1>1. s \in NodeStates(h, v, n)
  BY DEF IsLastState
<1>2. s.box = PlacesAt(h, v, n, s.from) /\ s.version = s.from /\ s.from \in v[n]
  BY <1>1 DEF NodeStates
<1>3. IsAsOf(v[n], t, s.from)
  BY <1>2, NodeStatesDef, LastStateIsOfTheLastVersion
<1>4. \A u \in v[n] : u \in Nat
  BY TimesAreNumbers
<1>5. {u \in v[n] : u <= s.from} = {u \in v[n] : u <= t}
  BY <1>2, <1>3, <1>4 DEF IsAsOf
<1> QED BY <1>2, <1>5, PlacesStay

(* A later version of a node of a way would have begun a later state. *)
LEMMA WayAnswer ==
  ASSUME NEW h, NEW v, NEW w, \A n \in Nodes \cup {w} : v[n] \in SUBSET Times, NEW t \in 0..LastTime,
         NEW s, IsLastState(WayStates(h, v, w), t, s), IsLive(h, w, s.version), h[w][s.version] \subseteq Nodes
  PROVE  s.box = ShownPlaces(h, v, h[w][s.version], s.from, t)
<1> DEFINE S == WayStates(h, v, w)
           M == h[w][s.version]
<1>1. s \in S /\ s.from <= t
  BY DEF IsLastState
<1>2. s.from \in Times /\ s.version \in v[w] /\ s = WayState(h, v, w, s.from, s.version, s.via)
  BY <1>1, WayStateDef
<1>3. s.box = UNION {PlacesAt(h, v, n, s.from) : n \in M}
  <2>1. s.box = WayGeometry(h, v, w, s.version, s.from)
    BY <1>2 DEF WayState
  <2> QED BY <2>1 DEF WayGeometry
<1>4. IsAsOf(v[w], t, s.version) /\ s.version <= s.from
  BY <1>1, WayStatesAreStates, LastStateIsOfTheLastVersion DEF IsStates, IsAsOf
<1>5. ASSUME NEW n \in M, Cardinality(v[n]) > 1, NEW u \in v[n], s.from < u, u <= t PROVE FALSE
  <2>1. u \in Times /\ u \in Nat /\ s.from \in Nat /\ s.version \in Nat /\ \A x \in v[w] : x \in Nat
    BY <1>2, TimesAreNumbers
  <2>2. s.version < u /\ IsAsOf(v[w], u, s.version)
    BY <1>4, <1>5, <2>1 DEF IsAsOf
  <2>3. u \in Window(v, w, s.version)
    BY <1>2, <2>1, <2>2, WindowDef
  <2>4. u \in WayEvents(h, v, w, s.version)
    BY <1>5, <2>3 DEF WayEvents
  <2>5. WayState(h, v, w, u, s.version, "node") \in S
    BY <1>2, <2>1, <2>4, WayStateDef DEF BeginsWayState
  <2>6. WayState(h, v, w, u, s.version, "node").from = u
    BY DEF WayState
  <2>7. u <= s.from
    BY <1>5, <2>1, <2>5, <2>6 DEF IsLastState
  <2> QED BY <1>5, <2>1, <2>7
<1>6. s.from \in Int /\ t \in Int
  <2>1. s.from \in Nat
    BY <1>2, TimesAreNumbers
  <2>2. LastTime \in Nat
    BY BuildAssumption
  <2> QED BY <2>1, <2>2
<1>7. \A n \in M : v[n] \in SUBSET Times
  OBVIOUS
<1> HIDE DEF M
<1>8. UNION {PlacesAt(h, v, n, s.from) : n \in M} = ShownPlaces(h, v, M, s.from, t)
  BY <1>1, <1>5, <1>6, <1>7, PlacesAreShown
<1> QED BY <1>3, <1>8 DEF M
LEMMA RelationAnswer ==
  ASSUME NEW h, NEW v, NEW r, \A i \in Nodes \cup Ways \cup {r} : v[i] \in SUBSET Times,
         NEW t \in 0..LastTime, NEW s,
         IsLastState(RelationStates(h, v, StatesOfWays(h, v), r), t, s),
         IsLive(h, r, s.version), h[r][s.version] \subseteq Nodes \cup Ways
  PROVE  /\ s.from <= t /\ s.from \in Int
         /\ s.box = ShownPlaces(h, v, h[r][s.version] \cap Nodes, s.from, t)
                    \cup UNION {WayBoxAt(WayStates(h, v, m), s.from) : m \in h[r][s.version] \cap Ways}
         /\ \A m \in h[r][s.version] \cap Ways : \A x \in WayStates(h, v, m) :
              ~(s.from < x.from /\ x.from <= t)
<1> DEFINE ws == StatesOfWays(h, v)
           S == RelationStates(h, v, ws, r)
           M == h[r][s.version]
<1>1. s \in S /\ s.from <= t
  BY DEF IsLastState
<1>2. s.from \in Times /\ s.version \in v[r] /\ s = RelationState(h, v, ws, r, s.from, s.version, s.via)
  BY <1>1, RelationStateDef
<1>3. /\ s.from \in Nat /\ s.version \in Nat /\ t \in Int
      /\ \A x \in v[r] : x \in Nat
  <2>1. LastTime \in Nat
    BY BuildAssumption
  <2>2. t \in Int
    BY <2>1
  <2> QED BY <1>2, <2>2, TimesAreNumbers
<1>4. IsAsOf(v[r], t, s.version) /\ s.version <= s.from
  BY <1>1, <1>3, RelationStatesAreStates, LastStateIsOfTheLastVersion DEF IsStates, IsAsOf
<1>5. ASSUME NEW u \in Times, s.from < u, u <= t, NEW via \in {"node", "way"}
      PROVE  u \notin RelationEvents(h, v, ws, r, s.version, via) /\ u \in Window(v, r, s.version)
  <2>1. u \in Nat
    BY TimesAreNumbers
  <2>2. s.version < u /\ IsAsOf(v[r], u, s.version)
    BY <1>3, <1>4, <1>5, <2>1 DEF IsAsOf
  <2>3. u \in Window(v, r, s.version)
    BY <1>2, <2>1, <2>2, WindowDef
  <2> SUFFICES ASSUME u \in RelationEvents(h, v, ws, r, s.version, via) PROVE FALSE
    BY <2>3
  <2> DEFINE x == RelationState(h, v, ws, r, u, s.version, via)
  <2>4. x \in S
    BY <1>2, RelationStateDef DEF BeginsRelationState, Vias
  <2>5. x.from = u
    BY DEF RelationState
  <2> HIDE DEF x
  <2>6. u <= s.from
    BY <1>3, <1>5, <2>1, <2>4, <2>5 DEF IsLastState
  <2> QED BY <1>3, <1>5, <2>1, <2>6
<1>6. ASSUME NEW n \in M \cap Nodes, Cardinality(v[n]) > 1, NEW u \in v[n], s.from < u, u <= t PROVE FALSE
  <2>1. u \in Times
    OBVIOUS
  <2>2. u \in Window(v, r, s.version) /\ u \notin RelationEvents(h, v, ws, r, s.version, "node")
    BY <1>5, <1>6, <2>1
  <2> QED BY <1>6, <2>2 DEF RelationEvents
<1>7. ASSUME NEW m \in M \cap Ways, NEW x \in WayStates(h, v, m), s.from < x.from, x.from <= t PROVE FALSE
  <2>1. x.from \in Times
    BY WayStateDef
  <2>2. x.from \in Window(v, r, s.version) /\ x.from \notin RelationEvents(h, v, ws, r, s.version, "way")
    BY <1>5, <1>7, <2>1
  <2>3. ws[m] = WayStates(h, v, m)
    BY BuiltStatesDef
  <2> QED BY <1>7, <2>2, <2>3 DEF RelationEvents
<1>8. UNION {PlacesAt(h, v, n, s.from) : n \in M \cap Nodes} = ShownPlaces(h, v, M \cap Nodes, s.from, t)
  <2>1. \A n \in M \cap Nodes : v[n] \in SUBSET Times
    OBVIOUS
  <2> QED BY <1>1, <1>3, <1>6, <2>1, PlacesAreShown
<1>9. s.box = (UNION {PlacesAt(h, v, n, s.from) : n \in M \cap Nodes})
              \cup UNION {WayBoxAt(WayStates(h, v, m), s.from) : m \in M \cap Ways}
  <2>1. s.box = RelationBox(h, v, ws, r, s.version, s.from)
    BY <1>2 DEF RelationState
  <2>2. s.box = UNION {IF m \in Nodes THEN PlacesAt(h, v, m, s.from) ELSE WayBoxAt(ws[m], s.from) : m \in M}
    BY <2>1 DEF RelationBox
  <2>3. \A m \in M : m \in Nodes \/ m \in Ways
    OBVIOUS
  <2>4. \A m \in Ways : m \notin Nodes /\ ws[m] = WayStates(h, v, m)
    BY BuildAssumption, BuiltStatesDef
  <2> HIDE DEF ws, M
  <2> QED BY <2>2, <2>3, <2>4
<1>10. s.from <= t /\ s.from \in Int
  BY <1>1, <1>3
<1>11. \A m \in M \cap Ways : \A x \in WayStates(h, v, m) : ~(s.from < x.from /\ x.from <= t)
  BY <1>7
<1> QED BY <1>8, <1>9, <1>10, <1>11

LEMMA BuildAnswersHold ==
  ASSUME NEW h, IsInput(h), NEW osh \in BOOLEAN
  PROVE  BuiltStatesAnswer(h, osh, KeptVersions(h, osh),
                           ByIdRows(h, StatesOfAll(h, KeptVersions(h, osh))))
<1> DEFINE v == KeptVersions(h, osh)
           states == StatesOfAll(h, v)
           R == ByIdRows(h, states)
<1>1. AreStates(states, v)
  BY BuiltStatesAreStates
<1>2. \A i \in Ids : v[i] = Kept(h, osh, i) /\ v[i] \in SUBSET Times /\ IsStates(states[i], v[i])
  BY <1>1 DEF AreStates, KeptVersions
<1> HIDE DEF v, states
<1> SUFFICES ASSUME NEW t \in SinceOf(osh)..LastTime
             PROVE  LET at == BuiltByIdAt(R, t)
                        Members(r) == h[r.id][r.version]
                    IN /\ {r.id : r \in at} = {i \in Ids : HasAsOf(v[i], t)}
                       /\ \A r \in at :
                            /\ r.version = AsOf(Events(h, r.id), t)
                            /\ \A s \in at : s.id = r.id => s = r
                            /\ r.live => r.box =
                                 CASE r.id \in Nodes -> PlacesAt(h, v, r.id, t)
                                   [] r.id \in Ways -> ShownPlaces(h, v, Members(r), r.from, t)
                                   [] r.id \in Relations ->
                                        ShownPlaces(h, v, Members(r) \cap Nodes, r.from, t)
                                        \cup UNION {w.box : w \in {x \in at : x.id \in Members(r) \cap Ways}}
  BY DEF BuiltStatesAnswer, v, states
<1>3. t \in Int /\ t \in 0..LastTime
  BY BuildAssumption DEF SinceOf
<1> DEFINE at == ValidStates(R, t)
<1>4. BuiltByIdAt(R, t) = at /\ \A r, s \in at : s.id = r.id => s = r
  BY <1>1, <1>3, ValidIsTheState
<1>5. \A r : r \in at <=> \E i \in Ids : \E s \in states[i] :
                            r = Row(h, i, states[i], s) /\ IsLastState(states[i], t, s)
  BY <1>1, <1>3, ValidRows
<1> HIDE DEF at, R
<1>6. {r.id : r \in at} = {i \in Ids : HasAsOf(v[i], t)}
  <2>1. ASSUME NEW r \in at PROVE r.id \in Ids /\ HasAsOf(v[r.id], t)
    <3>1. PICK i \in Ids : \E s \in states[i] : r = Row(h, i, states[i], s) /\ IsLastState(states[i], t, s)
      BY <1>5
    <3>2. r.id = i
      BY <3>1, RowFields
    <3> QED BY <1>2, <1>3, <3>1, <3>2, LastStateIffKnown
  <2>2. ASSUME NEW i \in Ids, HasAsOf(v[i], t) PROVE \E r \in at : r.id = i
    <3>1. PICK s \in states[i] : IsLastState(states[i], t, s)
      BY <1>2, <1>3, <2>2, LastStateIffKnown
    <3>2. Row(h, i, states[i], s) \in at /\ Row(h, i, states[i], s).id = i
      BY <1>5, <3>1, RowFields
    <3> QED BY <3>2
  <2> QED BY <2>1, <2>2
<1>7. ASSUME NEW r \in at
      PROVE  /\ r.version = AsOf(Events(h, r.id), t)
             /\ r.live /\ r.id \in Nodes => r.box = PlacesAt(h, v, r.id, t)
             /\ r.live /\ r.id \in Ways => r.box = ShownPlaces(h, v, h[r.id][r.version], r.from, t)
             /\ r.live /\ r.id \in Relations =>
                  r.box = ShownPlaces(h, v, h[r.id][r.version] \cap Nodes, r.from, t)
                          \cup UNION {w.box : w \in {x \in at : x.id \in h[r.id][r.version] \cap Ways}}
  <2>1. PICK i \in Ids : \E s \in states[i] : r = Row(h, i, states[i], s) /\ IsLastState(states[i], t, s)
    BY <1>5
  <2>2. PICK s \in states[i] : r = Row(h, i, states[i], s) /\ IsLastState(states[i], t, s)
    BY <2>1
  <2>3. /\ r.id = i /\ r.from = s.from /\ r.version = s.version /\ r.box = s.box
        /\ r.live = IsLive(h, i, s.version)
    BY <2>2, RowFields
  <2>4. IsAsOf(v[i], t, s.version)
    BY <1>2, <1>3, <2>2, LastStateIsOfTheLastVersion
  <2>5. HasAsOf(v[i], t) /\ AsOf(v[i], t) = s.version
    BY <1>2, <1>3, <2>4, AsOfIsOne
  <2>6. s.version = AsOf(Events(h, i), t)
    BY <1>2, <2>5, KeptIsComplete
  <2>7. s.version \in Events(h, i)
    BY <1>2, <2>4, KeptTypes DEF IsAsOf
  <2>8. CASE i \in Nodes
    <3>1. s.box = PlacesAt(h, v, i, t)
      BY <1>2, <1>3, <2>2, <2>8, BuiltStatesDef, NodeAnswer DEF states
    <3>2. i \notin Ways /\ i \notin Relations
      BY <2>8, BuildAssumption
    <3> QED BY <2>3, <2>6, <3>1, <3>2
  <2>9. CASE i \in Ways
    <3>1. i \notin Nodes /\ i \notin Relations
      BY <2>9, BuildAssumption
    <3>2. ASSUME r.live PROVE s.box = ShownPlaces(h, v, h[i][s.version], s.from, t)
      <4>1. h[i][s.version] \subseteq Nodes
        BY <2>3, <2>7, <2>9, <3>2, InputMembers
      <4>2. \A n \in Nodes \cup {i} : v[n] \in SUBSET Times
        BY <1>2 DEF Ids
      <4>3. IsLastState(WayStates(h, v, i), t, s)
        BY <2>2, <2>9, BuiltStatesDef DEF states
      <4>4. IsLive(h, i, s.version)
        BY <2>3, <3>2
      <4> QED BY <1>3, <4>1, <4>2, <4>3, <4>4, WayAnswer
    <3> QED BY <2>3, <2>6, <3>1, <3>2
  <2>10. CASE i \in Relations
    <3>1. i \notin Nodes /\ i \notin Ways
      BY <2>10, BuildAssumption
    <3>2. ASSUME r.live
          PROVE  s.box = ShownPlaces(h, v, h[i][s.version] \cap Nodes, s.from, t)
                         \cup UNION {w.box : w \in {x \in at : x.id \in h[i][s.version] \cap Ways}}
      <4> DEFINE M == h[i][s.version]
      <4>1. M \subseteq Nodes \cup Ways
        BY <2>3, <2>7, <2>10, <3>2, InputMembers
      <4>2. \A n \in Nodes \cup Ways \cup {i} : v[n] \in SUBSET Times
        BY <1>2 DEF Ids
      <4>3. IsLastState(RelationStates(h, v, StatesOfWays(h, v), i), t, s)
        BY <2>2, <2>10, BuiltStatesDef DEF states
      <4>4. /\ s.from <= t /\ s.from \in Int
            /\ s.box = ShownPlaces(h, v, M \cap Nodes, s.from, t)
                       \cup UNION {WayBoxAt(WayStates(h, v, m), s.from) : m \in M \cap Ways}
            /\ \A m \in M \cap Ways : \A x \in WayStates(h, v, m) : ~(s.from < x.from /\ x.from <= t)
        BY <1>3, <2>3, <3>2, <4>1, <4>2, <4>3, RelationAnswer
      <4> HIDE DEF M
      <4>5. ASSUME NEW m \in M \cap Ways
            PROVE  /\ m \in Ids
                   /\ IsStates(WayStates(h, v, m), v[m]) /\ states[m] = WayStates(h, v, m)
                   /\ \A x \in WayStates(h, v, m) :
                        IsLastState(WayStates(h, v, m), t, x) => WayBoxAt(WayStates(h, v, m), s.from) = x.box
                   /\ ~HasAsOf(v[m], t) => WayBoxAt(WayStates(h, v, m), s.from) = {}
        <5>1. m \in Ids /\ v[m] \in SUBSET Times /\ IsStates(states[m], v[m]) /\ states[m] = WayStates(h, v, m)
          BY <1>2, BuiltStatesDef DEF Ids, states
        <5>2. \A x \in WayStates(h, v, m) : ~(s.from < x.from /\ x.from <= t)
          BY <4>4, <4>5
        <5>3. /\ \A x \in WayStates(h, v, m) :
                   IsLastState(WayStates(h, v, m), t, x) => WayBoxAt(WayStates(h, v, m), s.from) = x.box
              /\ ~HasAsOf(v[m], t) => WayBoxAt(WayStates(h, v, m), s.from) = {}
          <6> DEFINE W == WayStates(h, v, m)
                     a == s.from
          <6>1. IsStates(W, v[m]) /\ a \in Int /\ a <= t /\ \A x \in W : ~(a < x.from /\ x.from <= t)
            BY <4>4, <5>1, <5>2
          <6> HIDE DEF W, a
          <6>2. /\ \A x \in W : IsLastState(W, t, x) => WayBoxAt(W, a) = x.box
                /\ ~HasAsOf(v[m], t) => WayBoxAt(W, a) = {}
            BY <1>3, <5>1, <6>1, WayBoxStays
          <6> QED BY <6>2 DEF W, a
        <5> QED BY <5>1, <5>3
      <4>6. ASSUME NEW m \in M \cap Ways, NEW p \in WayBoxAt(WayStates(h, v, m), s.from)
            PROVE  \E w \in at : w.id = m /\ p \in w.box
        <5>1. HasAsOf(v[m], t)
          BY <4>5, <4>6
        <5>2. PICK x \in states[m] : IsLastState(states[m], t, x)
          BY <1>2, <1>3, <4>5, <5>1, LastStateIffKnown
        <5>3. x.box = WayBoxAt(WayStates(h, v, m), s.from)
          BY <4>5, <5>2
        <5> DEFINE w == Row(h, m, states[m], x)
        <5>4. w \in at /\ w.id = m /\ w.box = x.box
          BY <1>5, <4>5, <5>2, RowFields
        <5> QED BY <4>6, <5>3, <5>4
      <4>7. ASSUME NEW w \in at, w.id \in M \cap Ways
            PROVE  w.box = WayBoxAt(WayStates(h, v, w.id), s.from)
        <5>1. PICK m \in Ids : \E x \in states[m] : w = Row(h, m, states[m], x) /\ IsLastState(states[m], t, x)
          BY <1>5
        <5>2. PICK x \in states[m] : w = Row(h, m, states[m], x) /\ IsLastState(states[m], t, x)
          BY <5>1
        <5>3. w.id = m /\ w.box = x.box
          BY <5>2, RowFields
        <5> QED BY <4>5, <4>7, <5>2, <5>3
      <4>8. UNION {WayBoxAt(WayStates(h, v, m), s.from) : m \in M \cap Ways}
              = UNION {w.box : w \in {x \in at : x.id \in M \cap Ways}}
        BY <4>6, <4>7
      <4> QED BY <4>4, <4>8 DEF M
    <3> QED BY <2>3, <2>6, <3>1, <3>2
  <2> QED BY <2>8, <2>9, <2>10 DEF Ids
<1>8. \A r \in at : r.id \in Ids
  BY <1>6
<1>9. \A i \in Ids : \/ i \in Nodes /\ i \notin Ways /\ i \notin Relations
                     \/ i \in Ways /\ i \notin Nodes /\ i \notin Relations
                     \/ i \in Relations /\ i \notin Nodes /\ i \notin Ways
  BY BuildAssumption DEF Ids
<1> QED BY <1>4, <1>6, <1>7, <1>8, <1>9
-----------------------------------------------------------------------------
(* Scans.  What has a place in a leaf lies in the leaf or in the root. *)

LEMMA NodeBoxes ==
  ASSUME NEW h, NEW v, NEW n, NEW s \in NodeStates(h, v, n), NEW p \in s.box
  PROVE  s.box = {p}
BY DEF NodeStates, PlacesAt

LEMMA OwnCellOfPlace ==
  ASSUME NEW i, NEW s, NEW c \in Inside, NEW p \in s.box, p[2] = c, i \in Nodes => s.box = {p}
  PROVE  OwnCell(i, s) \in {c, Root}
<1>1. CASE i \in Nodes
  <2>1. (CHOOSE q \in s.box : TRUE) = p
    BY <1>1
  <2>2. OwnCell(i, s) = NodeCell(p[2])
    BY <1>1, <2>1 DEF OwnCell
  <2> QED BY <2>2 DEF NodeCell
<1>2. CASE i \notin Nodes
  <2>1. OwnCell(i, s) = Containing(s.box)
    BY <1>2 DEF OwnCell
  <2>2. CASE \E d \in Inside : \A q \in s.box : q[2] = d
    <3>1. PICK d \in Inside : \A q \in s.box : q[2] = d
      BY <2>2
    <3>2. (CHOOSE q \in s.box : TRUE) \in s.box
      OBVIOUS
    <3>3. (CHOOSE q \in s.box : TRUE)[2] = c
      BY <3>1, <3>2
    <3> QED BY <2>1, <2>2, <3>3 DEF Containing
  <2>3. CASE ~ \E d \in Inside : \A q \in s.box : q[2] = d
    BY <2>1, <2>3 DEF Containing
  <2> QED BY <2>2, <2>3
<1> QED BY <1>1, <1>2

LEMMA CellOfPlace ==
  ASSUME NEW V \in SUBSET Times, NEW S, IsStates(S, V), NEW i, NEW s \in S,
         NEW c \in Inside, NEW p \in s.box, p[2] = c, i \in Nodes => s.box = {p}
  PROVE  CellFilled(i, S, s) \in {c, Root}
<1> DEFINE boxed == {x \in S : x.from <= s.from /\ x.box # {}}
           x == CHOOSE y \in boxed : \A z \in boxed : z.from <= y.from
<1>1. \A y \in S : y.from \in Nat
  BY TimesAreNumbers DEF IsStates
<1>2. s \in boxed /\ \A z \in boxed : z.from <= s.from
  BY <1>1
<1>3. CellFilled(i, S, s) = OwnCell(i, x)
  BY <1>2 DEF CellFilled
<1>4. x \in boxed /\ \A z \in boxed : z.from <= x.from
  BY <1>2
<1>5. x \in S /\ x.from = s.from
  BY <1>1, <1>2, <1>4
<1> HIDE DEF x
<1>6. x.box = s.box
  BY <1>5 DEF IsStates
<1> QED BY <1>3, <1>6, OwnCellOfPlace

MoveOf(q, p) == [q EXCEPT !.live = FALSE, !.box = {}, !.cell = p.cell]

LEMMA MovesDef ==
  ASSUME NEW R, NEW m \in Moves(R)
  PROVE  \E q \in R : \E p \in R : m = MoveOf(q, p)
<1> DEFINE Previous(r) == {p \in R : Later(r, p) /\ ~ \E x \in R : Later(x, p) /\ Later(r, x)}
           Of(r) == {MoveOf(r, p) : p \in {q \in Previous(r) : q.cell # r.cell}}
<1>1. Moves(R) = UNION {Of(r) : r \in {x \in R : x.live}}
  BY DEF Moves, MoveOf
<1>2. PICK r \in R : m \in Of(r)
  <2> HIDE DEF Of
  <2> QED BY <1>1
<1>3. PICK p \in Previous(r) : m = MoveOf(r, p)
  <2> HIDE DEF Previous
  <2> QED BY <1>2
<1> QED BY <1>3

LEMMA ScansAgreeHold ==
  ASSUME NEW h, NEW osh \in BOOLEAN
  PROVE  BuiltScansAgree(osh, ByIdRows(h, StatesOfAll(h, KeptVersions(h, osh))))
<1> DEFINE v == KeptVersions(h, osh)
           states == StatesOfAll(h, v)
           R == ByIdRows(h, states)
<1>1. AreStates(states, v)
  BY BuiltStatesAreStates
<1> HIDE DEF v, states
<1> SUFFICES ASSUME NEW t \in SinceOf(osh)..LastTime, NEW c \in Inside
             PROVE  LET Meeting(S) == {r \in S : r.live /\ \E p \in r.box : p[2] = c} IN
                      Meeting(BuiltScanAt(R, {c, Root}, t)) = Meeting(BuiltByIdAt(R, t))
  BY DEF BuiltScansAgree, v, states
<1>2. t \in Int
  BY BuildAssumption DEF SinceOf
<1> DEFINE at == ValidStates(R, t)
           moved == {m \in Moves(R) : m.from <= t}
           X == {r \in at \cup moved : r.cell \in {c, Root}}
<1>3. BuiltByIdAt(R, t) = at /\ \A r, s \in at : s.id = r.id => s = r
  BY <1>1, <1>2, ValidIsTheState
<1>4. \A r : r \in at <=> \E i \in Ids : \E s \in states[i] :
                            r = Row(h, i, states[i], s) /\ IsLastState(states[i], t, s)
  BY <1>1, <1>2, ValidRows
<1>5. BuiltScanAt(R, {c, Root}, t) = StateAt(X)
  BY DEF BuiltScanAt
<1>6. \A r \in at : r \in R /\ ~ \E q \in R : Later(q, r) /\ q.from <= t
  BY DEF ValidStates
<1>7. ASSUME NEW m \in moved
      PROVE  m.live = FALSE /\ m.from <= t /\ \E q \in R : q.id = m.id /\ q.from = m.from
  <2>1. PICK q \in R : \E p \in R : m = MoveOf(q, p)
    <3>1. m \in Moves(R)
      OBVIOUS
    <3> HIDE DEF R
    <3> QED BY <3>1, MovesDef
  <2>2. PICK p \in R : m = MoveOf(q, p)
    BY <2>1
  <2>3. PICK i \in Ids : \E s \in states[i] : q = Row(h, i, states[i], s)
    BY ByIdRowsDef
  <2>4. m.live = FALSE /\ m.id = q.id /\ m.from = q.from
    BY <2>2, <2>3 DEF Row, MoveOf
  <2> QED BY <1>7, <2>4
<1>8. ASSUME NEW r \in at
      PROVE  r.from \in Nat /\ r.version \in Nat /\ r.minor \in Nat /\ r.live \in BOOLEAN
  <2>1. PICK i \in Ids : \E s \in states[i] : r = Row(h, i, states[i], s)
    BY <1>4
  <2>2. PICK s \in states[i] : r = Row(h, i, states[i], s)
    BY <2>1
  <2>3. /\ r.from = s.from /\ r.version = s.version /\ r.minor = Minor(states[i], s)
        /\ r.live = IsLive(h, i, s.version)
    BY <2>2, RowFields
  <2>4. IsStates(states[i], v[i]) /\ v[i] \in SUBSET Times
    BY <1>1 DEF AreStates
  <2>5. s.from \in Nat /\ s.version \in Nat
    BY <2>4, TimesAreNumbers DEF IsStates, IsAsOf
  <2>6. r.live \in BOOLEAN
    BY <2>3 DEF IsLive
  <2> QED BY <2>3, <2>4, <2>5, <2>6, MinorIsANumber
<1>9. ASSUME NEW r \in at, r.live, NEW p \in r.box, p[2] = c PROVE r \in StateAt(X)
  <2>1. r.cell \in {c, Root}
    <3>1. PICK i \in Ids : \E s \in states[i] : r = Row(h, i, states[i], s)
      BY <1>4
    <3>2. PICK s \in states[i] : r = Row(h, i, states[i], s)
      BY <3>1
    <3>3. r.cell = CellFilled(i, states[i], s) /\ r.box = s.box
      BY <3>2, RowFields
    <3>4. IsStates(states[i], v[i]) /\ v[i] \in SUBSET Times
      BY <1>1 DEF AreStates
    <3>5. i \in Nodes => s.box = {p}
      BY <1>9, <3>2, <3>3, BuiltStatesDef, NodeBoxes DEF states
    <3> QED BY <1>9, <3>3, <3>4, <3>5, CellOfPlace
  <2>2. ASSUME NEW q \in X, q.id = r.id, IsNewer(q, r) PROVE FALSE
    <3>1. CASE q \in at
      <4>1. q = r
        BY <1>3, <2>2, <3>1
      <4> QED BY <1>8, <2>2, <4>1 DEF IsNewer
    <3>2. CASE q \in moved
      <4>1. PICK x \in R : x.id = q.id /\ x.from = q.from
        BY <1>7, <3>2
      <4>2. q.live = FALSE /\ q.from <= t
        BY <1>7, <3>2
      <4>3. q.from > r.from
        BY <1>9, <2>2, <4>2 DEF IsNewer
      <4>4. Later(x, r) /\ x.from <= t
        BY <2>2, <4>1, <4>2, <4>3 DEF Later
      <4> QED BY <1>6, <4>4
    <3> QED BY <3>1, <3>2
  <2> HIDE DEF at, moved
  <2> QED BY <1>9, <2>1, <2>2 DEF StateAt
<1>10. ASSUME NEW r \in StateAt(X), r.live PROVE r \in at
  <2>1. r \in X
    BY <1>10 DEF StateAt
  <2> QED BY <1>7, <1>10, <2>1
<1> HIDE DEF at, X
<1> QED BY <1>3, <1>5, <1>9, <1>10

(* Whatever versions an element, its nodes and its ways have, and whether  *)
(* the history begins with a full-history file or with a base file and its *)
(* diffs, the rows built give every known element one state at every       *)
(* instant since the history begins: the last version upstream made, with  *)
(* the geometry its members then had (history/build.py).                   *)
THEOREM BuildIsRight == Spec => []BuildAnswers
<1>1. JobInv => BuildAnswers
  <2> SUFFICES ASSUME JobInv, At("built") PROVE BuiltStatesAnswer(job.h, job.osh, job.v, job.rows)
    BY DEF BuildAnswers
  <2>1. PICK h \in BuildInputs, osh \in BOOLEAN : BuildInv(h, osh)
    BY DEF JobInv, IsBuilding
  <2>2. job = [stage |-> "built", h |-> h, osh |-> osh, v |-> KeptVersions(h, osh),
               rows |-> ByIdRows(h, StatesOfAll(h, KeptVersions(h, osh)))]
    BY <2>1 DEF BuildInv
  <2>3. IsInput(h)
    BY AlgorithmsAssumption
  <2>4. BuiltStatesAnswer(h, osh, KeptVersions(h, osh), ByIdRows(h, StatesOfAll(h, KeptVersions(h, osh))))
    BY <2>3, BuildAnswersHold
  <2> QED BY <2>2, <2>4
<1> QED BY <1>1, JobInvariant, PTL

(* A scan of the cells finds at every instant what the by-id rows have in  *)
(* a leaf, in the state they have it, and nothing that is gone: neither    *)
(* the cells that boxless states keep nor the move tombstones get in the   *)
(* way (_finalize_states).                                                 *)
THEOREM BuiltScansAreRight == Spec => []BuildScansAgree
<1>1. JobInv => BuildScansAgree
  <2> SUFFICES ASSUME JobInv, At("built") PROVE BuiltScansAgree(job.osh, job.rows)
    BY DEF BuildScansAgree
  <2>1. PICK h \in BuildInputs, osh \in BOOLEAN : BuildInv(h, osh)
    BY DEF JobInv, IsBuilding
  <2>2. job = [stage |-> "built", h |-> h, osh |-> osh, v |-> KeptVersions(h, osh),
               rows |-> ByIdRows(h, StatesOfAll(h, KeptVersions(h, osh)))]
    BY <2>1 DEF BuildInv
  <2>3. BuiltScansAgree(osh, ByIdRows(h, StatesOfAll(h, KeptVersions(h, osh))))
    BY ScansAgreeHold
  <2> QED BY <2>2, <2>3
<1> QED BY <1>1, JobInvariant, PTL
-----------------------------------------------------------------------------
(* Powers of two. *)

IsPow(g, n) == g \in [0..n -> Nat] /\ g[0] = 1 /\ \A i \in 1..n : g[i] = 2 * g[i - 1]

LEMMA PowExists ==
  ASSUME NEW n \in Nat
  PROVE  \E g : IsPow(g, n)
<1> DEFINE S == {m \in Nat : \E g : IsPow(g, m)}
<1>1. 0 \in S
  <2>1. IsPow([j \in 0..0 |-> 1], 0)
    BY DEF IsPow
  <2> QED BY <2>1
<1>2. ASSUME NEW m \in Nat, m \in S PROVE m + 1 \in S
  <2>1. PICK f : IsPow(f, m)
    BY <1>2
  <2> DEFINE g == [j \in 0..(m + 1) |-> IF j = m + 1 THEN 2 * f[m] ELSE f[j]]
  <2>2. f \in [0..m -> Nat] /\ f[0] = 1 /\ \A i \in 1..m : f[i] = 2 * f[i - 1]
    BY <2>1 DEF IsPow
  <2>3. g \in [0..(m + 1) -> Nat] /\ g[0] = 1
    BY <2>2
  <2>4. ASSUME NEW j \in 1..(m + 1) PROVE g[j] = 2 * g[j - 1]
    <3>1. CASE j = m + 1
      <4>1. g[j] = 2 * f[m] /\ g[j - 1] = f[m]
        BY <3>1
      <4> QED BY <4>1
    <3>2. CASE j # m + 1
      <4>1. j \in 1..m /\ g[j] = f[j] /\ g[j - 1] = f[j - 1]
        BY <3>2
      <4> QED BY <2>2, <4>1
    <3> QED BY <3>1, <3>2
  <2> HIDE DEF g
  <2>5. IsPow(g, m + 1)
    BY <2>3, <2>4 DEF IsPow
  <2> QED BY <2>5
<1>3. Nat \subseteq S
  <2> HIDE DEF S
  <2> QED BY <1>1, <1>2, SetInduction
<1> QED BY <1>3

LEMMA PowIsOne ==
  ASSUME NEW n \in Nat, NEW m \in Nat, NEW f, NEW g, IsPow(f, n), IsPow(g, m)
  PROVE  \A i \in Nat : i <= n /\ i <= m => f[i] = g[i]
<1> DEFINE S == {i \in Nat : i <= n /\ i <= m => f[i] = g[i]}
<1>1. 0 \in S
  BY DEF IsPow
<1>2. ASSUME NEW i \in Nat, i \in S PROVE i + 1 \in S
  <2> SUFFICES ASSUME i + 1 <= n, i + 1 <= m PROVE f[i + 1] = g[i + 1]
    OBVIOUS
  <2>1. i + 1 \in 1..n /\ i + 1 \in 1..m /\ (i + 1) - 1 = i
    OBVIOUS
  <2>2. f[i] = g[i]
    BY <1>2
  <2> QED BY <2>1, <2>2 DEF IsPow
<1>3. Nat \subseteq S
  <2> HIDE DEF S
  <2> QED BY <1>1, <1>2, SetInduction
<1> QED BY <1>3

LEMMA Pow2Def ==
  /\ Pow2[0] = 1
  /\ \A n \in Nat : Pow2[n + 1] = 2 * Pow2[n]
  /\ \A n \in Nat : Pow2[n] \in Nat /\ Pow2[n] > 0
<1> DEFINE Of(n) == CHOOSE g : IsPow(g, n)
           P(f) == [n \in Nat |-> IF n = 0 THEN 1 ELSE 2 * f[n - 1]]
           f == [n \in Nat |-> Of(n)[n]]
<1>1. Pow2 = CHOOSE g : g = P(g)
  BY DEF Pow2
<1>2. \A n \in Nat : IsPow(Of(n), n)
  BY PowExists
<1> HIDE DEF Of
<1>3. ASSUME NEW n \in Nat PROVE f[n] = P(f)[n]
  <2>1. CASE n = 0
    BY <1>2, <2>1 DEF IsPow
  <2>2. CASE n # 0
    <3>1. n - 1 \in Nat /\ n \in 1..n
      BY <2>2
    <3>2. Of(n)[n] = 2 * Of(n)[n - 1]
      BY <1>2, <3>1 DEF IsPow
    <3>3. Of(n)[n - 1] = Of(n - 1)[n - 1]
      BY <1>2, <3>1, PowIsOne
    <3> QED BY <2>2, <3>1, <3>2, <3>3
  <2> QED BY <2>1, <2>2
<1>4. f = P(f)
  BY <1>3
<1> HIDE DEF f
<1>5. Pow2 = P(Pow2)
  BY <1>1, <1>4
<1>6. Pow2[0] = 1 /\ \A n \in Nat : Pow2[n + 1] = 2 * Pow2[n]
  <2>1. \A n \in Nat : Pow2[n] = P(Pow2)[n]
    BY <1>5
  <2>2. Pow2[0] = 1
    BY <2>1
  <2>3. ASSUME NEW n \in Nat PROVE Pow2[n + 1] = 2 * Pow2[n]
    <3>1. n + 1 \in Nat /\ n + 1 # 0 /\ (n + 1) - 1 = n
      OBVIOUS
    <3> QED BY <2>1, <3>1
  <2> QED BY <2>2, <2>3
<1> DEFINE S == {n \in Nat : Pow2[n] \in Nat /\ Pow2[n] > 0}
<1>7. 0 \in S
  BY <1>6
<1>8. ASSUME NEW n \in Nat, n \in S PROVE n + 1 \in S
  BY <1>6, <1>8
<1>9. Nat \subseteq S
  <2> HIDE DEF S
  <2> QED BY <1>7, <1>8, SetInduction
<1> QED BY <1>6, <1>9

LEMMA Pow2Adds ==
  ASSUME NEW m \in Nat, NEW n \in Nat
  PROVE  Pow2[m + n] = Pow2[m] * Pow2[n]
<1> DEFINE S == {k \in Nat : Pow2[m + k] = Pow2[m] * Pow2[k]}
<1>1. 0 \in S
  BY Pow2Def
<1>2. ASSUME NEW k \in Nat, k \in S PROVE k + 1 \in S
  <2>1. Pow2[(m + k) + 1] = 2 * Pow2[m + k] /\ Pow2[k + 1] = 2 * Pow2[k]
    BY Pow2Def
  <2>2. Pow2[m] \in Nat /\ Pow2[k] \in Nat
    BY Pow2Def
  <2>3. Pow2[m + (k + 1)] = 2 * (Pow2[m] * Pow2[k])
    BY <1>2, <2>1
  <2>4. 2 * (Pow2[m] * Pow2[k]) = Pow2[m] * (2 * Pow2[k])
    BY <2>2
  <2> QED BY <2>1, <2>3, <2>4
<1>3. Nat \subseteq S
  <2> HIDE DEF S
  <2> QED BY <1>1, <1>2, SetInduction
<1> QED BY <1>3

-----------------------------------------------------------------------------
(* Quadkeys: digits, columns and rows of the grid. *)

DepthsOk == MaxDepth \in Nat /\ CapDepth \in Nat /\ CapDepth <= MaxDepth /\ MaxNodes \in Nat

LEMMA Depths == DepthsOk
BY LayoutAssumption DEF DepthsOk

LEMMA SideIsPower == Side \in Nat /\ Side > 0 /\ Side = Pow2[MaxDepth]
BY Depths, Pow2Def DEF Side, DepthsOk

LEMMA GridDef ==
  ASSUME NEW c \in Coords
  PROVE  /\ Grid(c) \in Nat /\ Grid(c) < Side
         /\ 2 * Grid(c) <= c /\ c <= 2 * Grid(c) + 2
<1>1. c \in Nat /\ c <= 2 * Side /\ Side \in Nat /\ Side > 0
  BY SideIsPower DEF Coords
<1>2. c \div 2 \in Nat /\ 2 * (c \div 2) <= c /\ c <= 2 * (c \div 2) + 1
  BY <1>1
<1> QED BY <1>1, <1>2 DEF Grid

LEMMA GridGrows ==
  ASSUME NEW a \in Coords, NEW b \in Coords, a <= b
  PROVE  Grid(a) <= Grid(b)
<1>1. a \in Nat /\ b \in Nat /\ Side \in Nat /\ Side > 0
  BY SideIsPower DEF Coords
<1>2. a \div 2 <= b \div 2 /\ a \div 2 \in Nat /\ b \div 2 \in Nat
  BY <1>1
<1> QED BY <1>1, <1>2 DEF Grid

(* The column (c = 1) or the row (c = 2) of a point among the cells of a   *)
(* depth.                                                                  *)
Line(p, c, i) == Grid(p[c]) \div Pow2[MaxDepth - i]

LEMMA LineDef ==
  ASSUME NEW p \in Points, NEW c \in 1..2, NEW i \in 0..MaxDepth
  PROVE  /\ Line(p, c, i) \in Nat
         /\ Line(p, c, i) % 2 \in 0..1
         /\ i > 0 => Line(p, c, i) = 2 * Line(p, c, i - 1) + (Line(p, c, i) % 2)
         /\ i = 0 => Line(p, c, i) = 0
<1>1. p[c] \in Coords
  BY DEF Points
<1>2. Grid(p[c]) \in Nat /\ Grid(p[c]) < Side
  BY <1>1, GridDef
<1>3. MaxDepth - i \in Nat
  BY Depths DEF DepthsOk
<1>4. Pow2[MaxDepth - i] \in Nat /\ Pow2[MaxDepth - i] > 0
  BY <1>3, Pow2Def
<1> DEFINE g == Grid(p[c])
           P == Pow2[MaxDepth - i]
<1> HIDE DEF g, P
<1>5. Line(p, c, i) = g \div P /\ g \in Nat /\ P \in Nat /\ P > 0
  BY <1>2, <1>4 DEF Line, g, P
<1>6. g \div P \in Nat /\ (g \div P) % 2 \in 0..1
  BY <1>5
<1>7. ASSUME i > 0 PROVE Line(p, c, i) = 2 * Line(p, c, i - 1) + (Line(p, c, i) % 2)
  <2>1. MaxDepth - (i - 1) = (MaxDepth - i) + 1
    BY Depths DEF DepthsOk
  <2>2. Pow2[MaxDepth - (i - 1)] = 2 * P
    BY <2>1, <1>3, Pow2Def DEF P
  <2>3. Line(p, c, i - 1) = g \div (2 * P)
    BY <2>2 DEF Line, g
  <2>4. g \div (2 * P) = (g \div P) \div 2
    BY <1>5
  <2>5. g \div P = 2 * ((g \div P) \div 2) + ((g \div P) % 2)
    BY <1>6
  <2> QED BY <1>5, <2>3, <2>4, <2>5
<1>8. ASSUME i = 0 PROVE Line(p, c, i) = 0
  <2>1. P = Side /\ g < Side
    BY <1>8, <1>2, SideIsPower, Depths DEF P, g, DepthsOk
  <2> QED BY <1>5, <2>1
<1> QED BY <1>5, <1>6, <1>7, <1>8

LEMMA DigitDef ==
  ASSUME NEW p \in Points, NEW i \in 1..MaxDepth
  PROVE  /\ Digit(p, i) \in 0..3
         /\ Digit(p, i) = 2 * (1 - (Line(p, 2, i) % 2)) + (Line(p, 1, i) % 2)
         /\ Digit(p, i) % 2 = Line(p, 1, i) % 2
         /\ 1 - (Digit(p, i) \div 2) = Line(p, 2, i) % 2
<1> DEFINE x == Line(p, 1, i) % 2
           y == Line(p, 2, i) % 2
<1>1. x \in 0..1 /\ y \in 0..1
  BY LineDef, Depths DEF DepthsOk
<1>2. Digit(p, i) = 2 * (1 - y) + x
  BY DEF Digit, Bit, Line
<1> HIDE DEF x, y
<1>3. 2 * (1 - y) + x \in 0..3 /\ (2 * (1 - y) + x) % 2 = x /\ 1 - ((2 * (1 - y) + x) \div 2) = y
  BY <1>1
<1> QED BY <1>2, <1>3 DEF x, y

LEMMA KeyType ==
  ASSUME NEW p \in Points, NEW d \in 0..MaxDepth
  PROVE  /\ Key(p, d) \in [1..d -> 0..3] /\ Key(p, d) \in Seq(0..3) /\ Len(Key(p, d)) = d
         /\ \A i \in 1..d : Key(p, d)[i] = Digit(p, i)
<1>1. \A i \in 1..d : Digit(p, i) \in 0..3
  BY DigitDef, Depths DEF DepthsOk
<1>2. Key(p, d) \in [1..d -> 0..3]
  BY <1>1 DEF Key
<1> QED BY <1>1, <1>2 DEF Key

LEMMA KeyCut ==
  ASSUME NEW p \in Points, NEW d \in 0..MaxDepth, NEW e \in 0..d
  PROVE  SubSeq(Key(p, d), 1, e) = Key(p, e)
<1>1. e \in 0..MaxDepth
  BY Depths DEF DepthsOk
<1>2. Key(p, d) \in Seq(0..3) /\ Len(Key(p, d)) = d
  BY KeyType
<1>3. Len(SubSeq(Key(p, d), 1, e)) = e /\ SubSeq(Key(p, d), 1, e) \in Seq(0..3)
  BY <1>2
<1>4. \A i \in 1..e : SubSeq(Key(p, d), 1, e)[i] = Key(p, d)[i]
  BY <1>2
<1>5. \A i \in 1..e : Key(p, d)[i] = Key(p, e)[i]
  BY DEF Key
<1>6. Key(p, e) \in Seq(0..3) /\ Len(Key(p, e)) = e
  BY <1>1, KeyType
<1> QED BY <1>3, <1>4, <1>5, <1>6

(* Points of one line at a depth are of one line at every depth above it.  *)
LEMMA LineAbove ==
  ASSUME NEW p \in Points, NEW q \in Points, NEW c \in 1..2, NEW d \in 0..MaxDepth, NEW i \in 0..d,
         Line(p, c, d) = Line(q, c, d)
  PROVE  Line(p, c, i) = Line(q, c, i)
<1>1. MaxDepth - d \in Nat /\ d - i \in Nat /\ MaxDepth - i = (MaxDepth - d) + (d - i)
  BY Depths DEF DepthsOk
<1> DEFINE P == Pow2[MaxDepth - d]
           Q == Pow2[d - i]
<1>2. P \in Nat /\ P > 0 /\ Q \in Nat /\ Q > 0 /\ Pow2[MaxDepth - i] = P * Q
  BY <1>1, Pow2Def, Pow2Adds
<1>3. Grid(p[c]) \in Nat /\ Grid(q[c]) \in Nat
  BY GridDef DEF Points
<1> HIDE DEF P, Q
<1>4. \A n \in Nat : n \div (P * Q) = (n \div P) \div Q
  BY <1>2
<1> QED BY <1>2, <1>3, <1>4 DEF Line, P

LEMMA KeysGiveLines ==
  ASSUME NEW p \in Points, NEW q \in Points, NEW d \in 0..MaxDepth, Key(p, d) = Key(q, d)
  PROVE  \A c \in 1..2 : Line(p, c, d) = Line(q, c, d)
<1> DEFINE S == {i \in Nat : i <= d => \A c \in 1..2 : Line(p, c, i) = Line(q, c, i)}
<1>1. 0 \in S
  BY LineDef, Depths DEF DepthsOk
<1>2. ASSUME NEW i \in Nat, i \in S PROVE i + 1 \in S
  <2> SUFFICES ASSUME i + 1 <= d PROVE \A c \in 1..2 : Line(p, c, i + 1) = Line(q, c, i + 1)
    OBVIOUS
  <2>1. i + 1 \in 1..d /\ i + 1 \in 1..MaxDepth /\ i + 1 \in 0..MaxDepth /\ i + 1 > 0 /\ (i + 1) - 1 = i
    BY Depths DEF DepthsOk
  <2>2. Digit(p, i + 1) = Digit(q, i + 1)
    BY <2>1, KeyType
  <2>3. \A c \in 1..2 : Line(p, c, i + 1) % 2 = Line(q, c, i + 1) % 2
    <3>1. Line(p, 1, i + 1) % 2 = Line(q, 1, i + 1) % 2
      BY <2>1, <2>2, DigitDef
    <3>2. Line(p, 2, i + 1) % 2 = Line(q, 2, i + 1) % 2
      BY <2>1, <2>2, DigitDef
    <3> QED BY <3>1, <3>2
  <2>4. \A c \in 1..2 : Line(p, c, i) = Line(q, c, i)
    BY <1>2, <2>1
  <2>5. \A c \in 1..2 : /\ Line(p, c, i + 1) = 2 * Line(p, c, i) + (Line(p, c, i + 1) % 2)
                        /\ Line(q, c, i + 1) = 2 * Line(q, c, i) + (Line(q, c, i + 1) % 2)
    BY <2>1, LineDef
  <2> QED BY <2>3, <2>4, <2>5
<1>3. Nat \subseteq S
  <2> HIDE DEF S
  <2> QED BY <1>1, <1>2, SetInduction
<1> QED BY <1>3

LEMMA LinesGiveKeys ==
  ASSUME NEW p \in Points, NEW q \in Points, NEW d \in 0..MaxDepth,
         \A c \in 1..2 : Line(p, c, d) = Line(q, c, d)
  PROVE  Key(p, d) = Key(q, d)
<1>1. ASSUME NEW i \in 1..d PROVE Digit(p, i) = Digit(q, i)
  <2>1. i \in 0..d /\ i \in 1..MaxDepth
    BY Depths DEF DepthsOk
  <2>2. \A c \in 1..2 : Line(p, c, i) = Line(q, c, i)
    BY <2>1, LineAbove
  <2>3. Line(p, 1, i) = Line(q, 1, i) /\ Line(p, 2, i) = Line(q, 2, i)
    BY <2>2
  <2> QED BY <2>1, <2>3, DigitDef
<1> QED BY <1>1 DEF Key

(* A cell that holds two corners of a box holds the box. *)
LEMMA BetweenCorners ==
  ASSUME NEW lo \in Points, NEW hi \in Points, NEW r \in Points,
         \A c \in 1..2 : lo[c] <= r[c] /\ r[c] <= hi[c],
         NEW d \in 0..MaxDepth, Key(lo, d) = Key(hi, d)
  PROVE  Key(r, d) = Key(lo, d)
<1>1. ASSUME NEW c \in 1..2 PROVE Line(r, c, d) = Line(lo, c, d)
  <2>1. lo[c] \in Coords /\ hi[c] \in Coords /\ r[c] \in Coords
    BY DEF Points
  <2>2. Grid(lo[c]) <= Grid(r[c]) /\ Grid(r[c]) <= Grid(hi[c])
    BY <2>1, GridGrows
  <2>3. Grid(lo[c]) \in Nat /\ Grid(r[c]) \in Nat /\ Grid(hi[c]) \in Nat
    BY <2>1, GridDef
  <2>4. MaxDepth - d \in Nat
    BY Depths DEF DepthsOk
  <2>5. Pow2[MaxDepth - d] \in Nat /\ Pow2[MaxDepth - d] > 0
    BY <2>4, Pow2Def
  <2>6. \A a, b, P \in Nat : P > 0 /\ a <= b => a \div P <= b \div P
    OBVIOUS
  <2>7. Line(lo, c, d) <= Line(r, c, d) /\ Line(r, c, d) <= Line(hi, c, d)
    BY <2>2, <2>3, <2>5, <2>6 DEF Line
  <2>8. Line(lo, c, d) = Line(hi, c, d)
    BY KeysGiveLines
  <2>9. Line(lo, c, d) \in Nat /\ Line(r, c, d) \in Nat
    BY LineDef
  <2> QED BY <2>7, <2>8, <2>9
<1> QED BY <1>1, LinesGiveKeys

-----------------------------------------------------------------------------
(* The box of a cell. *)

BoxAt(x, y, size) == [lo |-> <<x * size, y * size>>, hi |-> <<(x + 1) * size, (y + 1) * size>>]

LEMMA CellBoxDef ==
  ASSUME NEW p \in Points, NEW d \in 0..MaxDepth
  PROVE  CellBox(Key(p, d)) = BoxAt(Line(p, 1, d), Line(p, 2, d), 2 * Pow2[MaxDepth - d])
<1> DEFINE k == Key(p, d)
<1>1. Len(k) = d /\ \A i \in 1..d : k[i] = Digit(p, i)
  BY KeyType
<1> HIDE DEF k
<1> DEFINE Below(c, i) == <<2 * c[1] + (k[i] % 2), 2 * c[2] + 1 - (k[i] \div 2)>>
           G(f) == [i \in 0..d |-> IF i = 0 THEN <<0, 0>> ELSE Below(f[i - 1], i)]
           low == CHOOSE f : f = G(f)
           lines == [i \in 0..d |-> <<Line(p, 1, i), Line(p, 2, i)>>]
           size == (2 * Side) \div Pow2[d]
<1>2. CellBox(k) = BoxAt(low[d][1], low[d][2], size)
  BY <1>1 DEF CellBox, BoxAt
<1>3. ASSUME NEW i \in 0..d PROVE lines[i] = G(lines)[i]
  <2>1. CASE i = 0
    BY <2>1, LineDef, Depths DEF DepthsOk
  <2>2. CASE i # 0
    <3>1. i \in 1..d /\ i \in 1..MaxDepth /\ i \in 0..MaxDepth /\ i - 1 \in 0..d /\ i > 0
      BY <2>2, Depths DEF DepthsOk
    <3>2. k[i] = Digit(p, i)
      BY <1>1, <3>1
    <3>3. k[i] % 2 = Line(p, 1, i) % 2 /\ 1 - (k[i] \div 2) = Line(p, 2, i) % 2 /\ k[i] \div 2 \in Int
      <4>1. k[i] \in 0..3
        BY <3>1, <3>2, DigitDef
      <4> QED BY <3>1, <3>2, <4>1, DigitDef
    <3>4. Line(p, 1, i) = 2 * Line(p, 1, i - 1) + (k[i] % 2)
      BY <3>1, <3>3, LineDef
    <3>5. Line(p, 2, i) = 2 * Line(p, 2, i - 1) + 1 - (k[i] \div 2)
      <4>1. Line(p, 2, i) = 2 * Line(p, 2, i - 1) + (1 - (k[i] \div 2))
        BY <3>1, <3>3, LineDef
      <4>2. Line(p, 2, i - 1) \in Nat
        BY <3>1, LineDef, Depths DEF DepthsOk
      <4> QED BY <4>1, <4>2, <3>3
    <3>6. lines[i - 1][1] = Line(p, 1, i - 1) /\ lines[i - 1][2] = Line(p, 2, i - 1)
      BY <3>1
    <3>7. G(lines)[i] = <<2 * lines[i - 1][1] + (k[i] % 2), 2 * lines[i - 1][2] + 1 - (k[i] \div 2)>>
      BY <3>1
    <3>8. lines[i] = <<Line(p, 1, i), Line(p, 2, i)>>
      BY <3>1
    <3> HIDE DEF lines, G
    <3> QED BY <3>4, <3>5, <3>6, <3>7, <3>8
  <2> QED BY <2>1, <2>2
<1>4. lines = G(lines)
  BY <1>3
<1>5. low = G(low)
  <2> HIDE DEF lines, G
  <2> QED BY <1>4
<1>6. low[d] = <<Line(p, 1, d), Line(p, 2, d)>>
  <2> DEFINE S == {i \in Nat : i <= d => low[i] = lines[i]}
  <2>1. \A i \in 0..d : low[i] = G(low)[i] /\ lines[i] = G(lines)[i]
    <3> HIDE DEF G, lines, low
    <3> QED BY <1>4, <1>5
  <2> HIDE DEF low, lines, Below
  <2>2. 0 \in S
    <3>1. 0 \in 0..d
      OBVIOUS
    <3> QED BY <2>1, <3>1
  <2>3. ASSUME NEW i \in Nat, i \in S PROVE i + 1 \in S
    <3> SUFFICES ASSUME i + 1 <= d PROVE low[i + 1] = lines[i + 1]
      OBVIOUS
    <3>1. i + 1 \in 0..d /\ (i + 1) - 1 = i /\ i + 1 # 0
      OBVIOUS
    <3>2. low[i] = lines[i]
      BY <2>3
    <3> QED BY <2>1, <3>1, <3>2
  <2>4. Nat \subseteq S
    <3> HIDE DEF S
    <3> QED BY <2>2, <2>3, SetInduction
  <2>5. low[d] = lines[d]
    BY <2>4
  <2> QED BY <2>5 DEF lines
<1>7. size = 2 * Pow2[MaxDepth - d]
  <2>1. MaxDepth - d \in Nat /\ d \in Nat /\ MaxDepth = d + (MaxDepth - d)
    BY Depths DEF DepthsOk
  <2>2. Side = Pow2[d] * Pow2[MaxDepth - d]
    BY <2>1, Pow2Adds, SideIsPower
  <2>3. Pow2[d] \in Nat /\ Pow2[d] > 0 /\ Pow2[MaxDepth - d] \in Nat
    BY <2>1, Pow2Def
  <2>4. \A a, b \in Nat : b > 0 => (2 * (b * a)) \div b = 2 * a
    OBVIOUS
  <2> QED BY <2>2, <2>3, <2>4
<1> HIDE DEF low, size
<1> QED BY <1>2, <1>6, <1>7 DEF k

(* A point is in the box of each of its cells (cell_bbox). *)
LEMMA InItsCell ==
  ASSUME NEW r \in Points, NEW d \in 0..MaxDepth
  PROVE  Intersects(PointBox(r), CellBox(Key(r, d)))
<1> DEFINE P == Pow2[MaxDepth - d]
           B == BoxAt(Line(r, 1, d), Line(r, 2, d), 2 * P)
<1>1. MaxDepth - d \in Nat
  BY Depths DEF DepthsOk
<1>2. P \in Nat /\ P > 0
  BY <1>1, Pow2Def
<1>3. ASSUME NEW c \in 1..2
      PROVE  Line(r, c, d) * (2 * P) <= r[c] /\ r[c] <= (Line(r, c, d) + 1) * (2 * P)
  <2>1. r[c] \in Coords /\ r[c] \in Nat
    BY SideIsPower DEF Points, Coords
  <2>2. Grid(r[c]) \in Nat /\ 2 * Grid(r[c]) <= r[c] /\ r[c] <= 2 * Grid(r[c]) + 2
    BY <2>1, GridDef
  <2>3. Line(r, c, d) = Grid(r[c]) \div P
    BY DEF Line
  <2>4. \A g \in Nat : (g \div P) * P <= g /\ g + 1 <= (g \div P) * P + P /\ (g \div P) \in Nat
    BY <1>2
  <2> DEFINE q == Line(r, c, d)
  <2>5. q \in Nat /\ q * P <= Grid(r[c]) /\ Grid(r[c]) + 1 <= q * P + P
    BY <2>2, <2>3, <2>4
  <2> HIDE DEF q, P
  <2>6. q * (2 * P) = 2 * (q * P) /\ (q + 1) * (2 * P) = 2 * (q * P) + 2 * P /\ q * P \in Nat
    BY <2>5, <1>2
  <2>7. q * (2 * P) <= r[c] /\ r[c] <= (q + 1) * (2 * P)
    BY <2>1, <2>2, <2>5, <2>6, <1>2
  <2> QED BY <2>7 DEF q
<1>4. /\ B.lo[1] = Line(r, 1, d) * (2 * P) /\ B.hi[1] = (Line(r, 1, d) + 1) * (2 * P)
      /\ B.lo[2] = Line(r, 2, d) * (2 * P) /\ B.hi[2] = (Line(r, 2, d) + 1) * (2 * P)
  BY DEF BoxAt
<1>5. \A c \in 1..2 : B.lo[c] = Line(r, c, d) * (2 * P) /\ B.hi[c] = (Line(r, c, d) + 1) * (2 * P)
  <2> HIDE DEF B
  <2> QED BY <1>4
<1>6. \A c \in 1..2 : r[c] \in Nat /\ Line(r, c, d) * (2 * P) \in Nat /\ (Line(r, c, d) + 1) * (2 * P) \in Nat
  <2>1. \A c \in 1..2 : r[c] \in Nat
    BY SideIsPower DEF Points, Coords
  <2>2. \A c \in 1..2 : Line(r, c, d) \in Nat
    BY LineDef
  <2> QED BY <2>1, <2>2, <1>2
<1>7. CellBox(Key(r, d)) = B
  BY CellBoxDef
<1> HIDE DEF B, P
<1>8. \A c \in 1..2 : r[c] <= B.hi[c] /\ r[c] >= B.lo[c]
  BY <1>3, <1>5, <1>6
<1> QED BY <1>7, <1>8 DEF Intersects, PointBox

-----------------------------------------------------------------------------
(* The value of a key: its digits read in base four. *)

IsValueTo(f, k, n) ==
  /\ f \in [0..n -> Nat] /\ f[0] = 0
  /\ \A i \in 1..n : f[i] = 4 * f[i - 1] + k[i]

IsValue(f, k) == IsValueTo(f, k, Len(k))

LEMMA ValueExists ==
  ASSUME NEW k \in Seq(0..3), NEW n \in Nat, n <= Len(k)
  PROVE  \E f : IsValueTo(f, k, n)
<1> DEFINE S == {m \in Nat : m <= Len(k) => \E f : IsValueTo(f, k, m)}
<1>1. 0 \in S
  <2>1. IsValueTo([j \in 0..0 |-> 0], k, 0)
    BY DEF IsValueTo
  <2> QED BY <2>1
<1>2. ASSUME NEW m \in Nat, m \in S PROVE m + 1 \in S
  <2> SUFFICES ASSUME m + 1 <= Len(k) PROVE \E f : IsValueTo(f, k, m + 1)
    OBVIOUS
  <2>1. PICK f : IsValueTo(f, k, m)
    BY <1>2
  <2> DEFINE g == [j \in 0..(m + 1) |-> IF j = m + 1 THEN 4 * f[m] + k[m + 1] ELSE f[j]]
  <2>2. f \in [0..m -> Nat] /\ f[0] = 0 /\ \A i \in 1..m : f[i] = 4 * f[i - 1] + k[i]
    BY <2>1 DEF IsValueTo
  <2>3. k[m + 1] \in 0..3
    OBVIOUS
  <2>4. g \in [0..(m + 1) -> Nat] /\ g[0] = 0
    BY <2>2, <2>3
  <2>5. ASSUME NEW j \in 1..(m + 1) PROVE g[j] = 4 * g[j - 1] + k[j]
    <3>1. CASE j = m + 1
      <4>1. g[j] = 4 * f[m] + k[j] /\ g[j - 1] = f[m]
        BY <3>1
      <4> QED BY <4>1
    <3>2. CASE j # m + 1
      <4>1. j \in 1..m /\ g[j] = f[j] /\ g[j - 1] = f[j - 1]
        BY <3>2
      <4> QED BY <2>2, <4>1
    <3> QED BY <3>1, <3>2
  <2> HIDE DEF g
  <2>6. IsValueTo(g, k, m + 1)
    BY <2>4, <2>5 DEF IsValueTo
  <2> QED BY <2>6
<1>3. Nat \subseteq S
  <2> HIDE DEF S
  <2> QED BY <1>1, <1>2, SetInduction
<1> QED BY <1>3

LEMMA ValueDef ==
  ASSUME NEW k \in Seq(0..3)
  PROVE  \E f : IsValue(f, k) /\ KeyToValue(k) = f[Len(k)]
<1> DEFINE n == Len(k)
           G(f) == [i \in 0..n |-> IF i = 0 THEN 0 ELSE 4 * f[i - 1] + k[i]]
           value == CHOOSE f : f = G(f)
<1>1. KeyToValue(k) = value[n]
  BY DEF KeyToValue
<1>2. n \in Nat /\ \A i \in 1..n : k[i] \in 0..3
  OBVIOUS
<1> HIDE DEF n
<1>3. PICK g : IsValueTo(g, k, n)
  BY <1>2, ValueExists DEF n
<1>4. g = G(g)
  <2>1. \A i \in 0..n : g[i] = G(g)[i]
    BY <1>2, <1>3 DEF IsValueTo
  <2> QED BY <1>3, <2>1 DEF IsValueTo
<1>5. value = G(value)
  <2> HIDE DEF G
  <2> QED BY <1>4
<1>6. \A i \in 0..n : value[i] = G(value)[i]
  <2> HIDE DEF G, value
  <2> QED BY <1>5
<1> HIDE DEF value
<1>7. value[0] = 0 /\ \A i \in 1..n : value[i] = 4 * value[i - 1] + k[i]
  BY <1>6, <1>2
<1> DEFINE S == {i \in Nat : i <= n => value[i] \in Nat}
<1>8. 0 \in S
  BY <1>7
<1>9. ASSUME NEW i \in Nat, i \in S PROVE i + 1 \in S
  <2> SUFFICES ASSUME i + 1 <= n PROVE value[i + 1] \in Nat
    OBVIOUS
  <2>1. i + 1 \in 1..n /\ (i + 1) - 1 = i
    BY <1>2
  <2>2. value[i + 1] = 4 * value[i] + k[i + 1] /\ k[i + 1] \in 0..3
    BY <2>1, <1>2, <1>7
  <2>3. value[i] \in Nat
    BY <1>9, <1>2
  <2> QED BY <2>2, <2>3
<1>10. Nat \subseteq S
  <2> HIDE DEF S
  <2> QED BY <1>8, <1>9, SetInduction
<1>11. value \in [0..n -> Nat]
  <2>1. \A i \in 0..n : value[i] \in Nat
    BY <1>10, <1>2
  <2>2. value = [i \in 0..n |-> G(value)[i]]
    BY <1>5
  <2>3. \A i \in 0..n : G(value)[i] \in Nat
    BY <1>6, <2>1
  <2> HIDE DEF G
  <2> QED BY <2>2, <2>3
<1> QED BY <1>1, <1>7, <1>11 DEF IsValue, IsValueTo, n

LEMMA ValueAgrees ==
  ASSUME NEW k \in Seq(0..3), NEW l \in Seq(0..3), NEW f, NEW g, IsValue(f, k), IsValue(g, l),
         NEW m \in Nat, m <= Len(k), m <= Len(l), \A i \in 1..m : k[i] = l[i]
  PROVE  f[m] = g[m]
<1> DEFINE S == {i \in Nat : i <= m => f[i] = g[i]}
<1>1. 0 \in S
  BY DEF IsValue, IsValueTo
<1>2. ASSUME NEW i \in Nat, i \in S PROVE i + 1 \in S
  <2> SUFFICES ASSUME i + 1 <= m PROVE f[i + 1] = g[i + 1]
    OBVIOUS
  <2>1. i + 1 \in 1..Len(k) /\ i + 1 \in 1..Len(l) /\ i + 1 \in 1..m /\ (i + 1) - 1 = i
    OBVIOUS
  <2>2. f[i] = g[i] /\ k[i + 1] = l[i + 1]
    BY <1>2, <2>1
  <2> QED BY <2>1, <2>2 DEF IsValue, IsValueTo
<1>3. Nat \subseteq S
  <2> HIDE DEF S
  <2> QED BY <1>1, <1>2, SetInduction
<1> QED BY <1>3

LEMMA ValueTells ==
  ASSUME NEW k \in Seq(0..3), NEW l \in Seq(0..3), NEW f, NEW g, IsValue(f, k), IsValue(g, l),
         NEW m \in Nat, m <= Len(k), m <= Len(l), f[m] = g[m]
  PROVE  \A i \in 1..m : k[i] = l[i]
<1> DEFINE S == {j \in Nat : j <= m /\ f[j] = g[j] => \A i \in 1..j : k[i] = l[i]}
<1>1. 0 \in S
  OBVIOUS
<1>2. ASSUME NEW j \in Nat, j \in S PROVE j + 1 \in S
  <2> SUFFICES ASSUME j + 1 <= m, f[j + 1] = g[j + 1] PROVE \A i \in 1..(j + 1) : k[i] = l[i]
    OBVIOUS
  <2>1. j + 1 \in 1..Len(k) /\ j + 1 \in 1..Len(l) /\ (j + 1) - 1 = j /\ j \in 0..Len(k) /\ j \in 0..Len(l)
    OBVIOUS
  <2>2. f[j + 1] = 4 * f[j] + k[j + 1] /\ g[j + 1] = 4 * g[j] + l[j + 1] /\ f[j] \in Nat /\ g[j] \in Nat
    BY <2>1 DEF IsValue, IsValueTo
  <2>3. k[j + 1] \in 0..3 /\ l[j + 1] \in 0..3
    BY <2>1
  <2>4. f[j] = g[j] /\ k[j + 1] = l[j + 1]
    <3> DEFINE a == f[j]
               b == g[j]
               x == k[j + 1]
               y == l[j + 1]
    <3>1. a \in Nat /\ b \in Nat /\ x \in 0..3 /\ y \in 0..3 /\ 4 * a + x = 4 * b + y
      BY <2>2, <2>3
    <3> HIDE DEF a, b, x, y
    <3>2. a = b
      BY <3>1
    <3>3. x = y
      BY <3>1, <3>2
    <3> QED BY <3>2, <3>3 DEF a, b, x, y
  <2>5. \A i \in 1..j : k[i] = l[i]
    BY <1>2, <2>4
  <2> QED BY <2>4, <2>5
<1>3. Nat \subseteq S
  <2> HIDE DEF S
  <2> QED BY <1>1, <1>2, SetInduction
<1> QED BY <1>3

(* Four to the n is two to the 2n. *)
LEMMA Pow4 ==
  /\ Pow2[2 * 0] = 1
  /\ \A n \in Nat : Pow2[2 * (n + 1)] = 4 * Pow2[2 * n]
  /\ \A n \in Nat : Pow2[2 * n] \in Nat /\ Pow2[2 * n] > 0
<1>1. ASSUME NEW n \in Nat PROVE Pow2[2 * (n + 1)] = 4 * Pow2[2 * n] /\ Pow2[2 * n] \in Nat /\ Pow2[2 * n] > 0
  <2>1. 2 * n \in Nat /\ 2 * n + 1 \in Nat /\ 2 * (n + 1) = (2 * n + 1) + 1
    OBVIOUS
  <2>2. Pow2[2 * n + 1] = 2 * Pow2[2 * n] /\ Pow2[(2 * n + 1) + 1] = 2 * Pow2[2 * n + 1]
    BY <2>1, Pow2Def
  <2>3. Pow2[2 * n] \in Nat /\ Pow2[2 * n] > 0
    BY <2>1, Pow2Def
  <2> QED BY <2>1, <2>2, <2>3
<1>2. Pow2[2 * 0] = 1
  BY Pow2Def
<1> QED BY <1>1, <1>2

(* The values of the keys that begin with the first d digits of k. *)
LEMMA ValueSpread ==
  ASSUME NEW k \in Seq(0..3), NEW f, IsValue(f, k), NEW d \in 0..Len(k)
  PROVE  /\ f[d] * Pow2[2 * (Len(k) - d)] <= f[Len(k)]
         /\ f[Len(k)] < f[d] * Pow2[2 * (Len(k) - d)] + Pow2[2 * (Len(k) - d)]
         /\ (\A i \in (d + 1)..Len(k) : k[i] = 0) => f[Len(k)] = f[d] * Pow2[2 * (Len(k) - d)]
<1> DEFINE Zeros(j) == \A i \in (d + 1)..(d + j) : k[i] = 0
           Ok(j) == /\ f[d] * Pow2[2 * j] <= f[d + j]
                    /\ f[d + j] < f[d] * Pow2[2 * j] + Pow2[2 * j]
                    /\ Zeros(j) => f[d + j] = f[d] * Pow2[2 * j]
           S == {j \in Nat : d + j <= Len(k) => Ok(j)}
<1>0. f[d] \in Nat /\ d \in Nat
  BY DEF IsValue, IsValueTo
<1>1. 0 \in S
  <2>1. Pow2[2 * 0] = 1 /\ d + 0 = d
    BY Pow4
  <2>2. f[d] * 1 = f[d]
    BY <1>0
  <2> QED BY <2>1, <2>2, <1>0
<1>2. ASSUME NEW j \in Nat, j \in S PROVE j + 1 \in S
  <2> SUFFICES ASSUME d + (j + 1) <= Len(k) PROVE Ok(j + 1)
    OBVIOUS
  <2> DEFINE e == d + j
  <2>1. e + 1 \in 1..Len(k) /\ (e + 1) - 1 = e /\ e \in 0..Len(k) /\ d + (j + 1) = e + 1 /\ e + 1 \in Nat
    BY <1>0
  <2>2. f[e + 1] = 4 * f[e] + k[e + 1] /\ f[e] \in Nat
    BY <2>1 DEF IsValue, IsValueTo
  <2>3. k[e + 1] \in 0..3
    BY <2>1
  <2>4. Ok(j)
    BY <1>2, <2>1
  <2> DEFINE P == Pow2[2 * j]
  <2>5. P \in Nat /\ P > 0 /\ Pow2[2 * (j + 1)] = 4 * P
    BY Pow4
  <2>6. Zeros(j + 1) => Zeros(j) /\ k[e + 1] = 0
    BY <2>1, <1>0
  <2>7. f[d] * P <= f[e] /\ f[e] < f[d] * P + P /\ (Zeros(j) => f[e] = f[d] * P)
    BY <2>4
  <2> HIDE DEF P, e, Zeros
  <2>8. f[d] * (4 * P) = 4 * (f[d] * P) /\ f[d] * P \in Nat
    BY <2>5, <1>0
  <2>9. f[d] * (4 * P) <= f[e + 1] /\ f[e + 1] < f[d] * (4 * P) + 4 * P
    <3>1. \A a, b, c \in Nat : \A x \in 0..3 :
            a <= b /\ b < a + c => 4 * a <= 4 * b + x /\ 4 * b + x < 4 * a + 4 * c
      OBVIOUS
    <3>2. 4 * (f[d] * P) <= 4 * f[e] + k[e + 1] /\ 4 * f[e] + k[e + 1] < 4 * (f[d] * P) + 4 * P
      BY <2>2, <2>3, <2>5, <2>7, <2>8, <3>1
    <3> QED BY <2>2, <2>8, <3>2
  <2>10. Zeros(j + 1) => f[e + 1] = f[d] * (4 * P)
    BY <2>2, <2>6, <2>7, <2>8
  <2> QED BY <2>1, <2>5, <2>9, <2>10
<1>3. Nat \subseteq S
  <2> HIDE DEF S
  <2> QED BY <1>1, <1>2, SetInduction
<1>4. Len(k) - d \in Nat /\ d + (Len(k) - d) = Len(k)
  OBVIOUS
<1>5. Ok(Len(k) - d)
  BY <1>3, <1>4
<1> QED BY <1>4, <1>5

-----------------------------------------------------------------------------
(* The codes of a cell (qk_range). *)

LEMMA QuotientIsOne ==
  ASSUME NEW a \in Nat, NEW b \in Nat, NEW v \in Nat, NEW P \in Nat, P > 0,
         a * P <= v, v < a * P + P, b * P <= v, v < b * P + P
  PROVE  a = b
<1>1. ASSUME NEW x \in Nat, NEW y \in Nat, x < y PROVE x * P + P <= y * P
  BY <1>1
<1>2. ~(a < b)
  <2> SUFFICES ASSUME a < b PROVE FALSE
    OBVIOUS
  <2>1. a * P + P <= b * P
    BY <1>1
  <2>2. a * P \in Nat /\ b * P \in Nat
    OBVIOUS
  <2> QED BY <2>1, <2>2
<1>3. ~(b < a)
  <2> SUFFICES ASSUME b < a PROVE FALSE
    OBVIOUS
  <2>1. b * P + P <= a * P
    BY <1>1
  <2>2. a * P \in Nat /\ b * P \in Nat
    OBVIOUS
  <2> QED BY <2>1, <2>2
<1> QED BY <1>2, <1>3

IsKeyTo(k, n) == k \in Seq(0..3) /\ Len(k) <= n

LEMMA QkType ==
  ASSUME NEW k, IsKeyTo(k, MaxDepth)
  PROVE  /\ KeyToValue(k) \in Nat /\ QkLow(k) \in Nat /\ QkHigh(k) \in Nat
         /\ QkLow(k) <= QkHigh(k)
         /\ \A v \in Nat : v <= QkHigh(k) <=> v < QkLow(k) + Pow2[2 * (MaxDepth - Len(k))]
<1>1. k \in Seq(0..3) /\ Len(k) \in Nat /\ MaxDepth - Len(k) \in Nat
  BY Depths DEF DepthsOk, IsKeyTo
<1>2. PICK f : IsValue(f, k) /\ KeyToValue(k) = f[Len(k)]
  BY <1>1, ValueDef
<1>3. KeyToValue(k) \in Nat
  <2>1. Len(k) \in 0..Len(k)
    BY <1>1
  <2> QED BY <2>1, <1>2 DEF IsValue, IsValueTo
<1> DEFINE P == Pow2[2 * (MaxDepth - Len(k))]
<1>4. P \in Nat /\ P > 0
  BY <1>1, Pow4
<1> HIDE DEF P
<1>5. QkLow(k) = KeyToValue(k) * P /\ QkHigh(k) = QkLow(k) + P - 1
  BY DEF QkLow, QkHigh, P
<1>6. QkLow(k) \in Nat
  BY <1>3, <1>4, <1>5
<1>7. QkHigh(k) \in Nat /\ QkLow(k) <= QkHigh(k) /\ \A v \in Nat : v <= QkHigh(k) <=> v < QkLow(k) + P
  BY <1>4, <1>5, <1>6
<1> QED BY <1>3, <1>6, <1>7 DEF P

LEMMA RangeDef ==
  ASSUME NEW K \in Seq(0..3), Len(K) = MaxDepth, NEW k, IsKeyTo(k, MaxDepth)
  PROVE  /\ QkLow(k) <= KeyToValue(K) /\ KeyToValue(K) <= QkHigh(k)
              <=> \A i \in 1..Len(k) : K[i] = k[i]
         /\ (\A i \in 1..MaxDepth : K[i] = IF i <= Len(k) THEN k[i] ELSE 0) => KeyToValue(K) = QkLow(k)
<1> DEFINE n == Len(k)
           P == Pow2[2 * (MaxDepth - n)]
<1>1. k \in Seq(0..3) /\ n \in Nat /\ n <= MaxDepth /\ MaxDepth \in Nat /\ MaxDepth - n \in Nat /\ n \in 0..Len(K)
  BY Depths DEF DepthsOk, IsKeyTo
<1>2. PICK g : IsValue(g, k) /\ KeyToValue(k) = g[n]
  BY <1>1, ValueDef
<1>3. PICK f : IsValue(f, K) /\ KeyToValue(K) = f[MaxDepth]
  BY ValueDef
<1>4. P \in Nat /\ P > 0
  BY <1>1, Pow4
<1>5. /\ f[n] * P <= f[MaxDepth] /\ f[MaxDepth] < f[n] * P + P
      /\ (\A i \in (n + 1)..MaxDepth : K[i] = 0) => f[MaxDepth] = f[n] * P
  BY <1>1, <1>3, ValueSpread
<1>6. QkLow(k) = g[n] * P /\ \A v \in Nat : v <= QkHigh(k) <=> v < g[n] * P + P
  BY <1>2, QkType DEF QkLow
<1>7. f[MaxDepth] \in Nat /\ f[n] \in Nat /\ g[n] \in Nat
  <2>1. f \in [0..MaxDepth -> Nat] /\ g \in [0..n -> Nat]
    BY <1>2, <1>3 DEF IsValue, IsValueTo
  <2>2. MaxDepth \in 0..MaxDepth /\ n \in 0..MaxDepth /\ n \in 0..n
    BY <1>1
  <2> QED BY <2>1, <2>2
<1> HIDE DEF P, n
<1>8. ASSUME \A i \in 1..n : K[i] = k[i] PROVE f[n] = g[n]
  BY <1>1, <1>2, <1>3, <1>8, ValueAgrees DEF n
<1>9. ASSUME \A i \in 1..n : K[i] = k[i] PROVE QkLow(k) <= KeyToValue(K) /\ KeyToValue(K) <= QkHigh(k)
  BY <1>3, <1>5, <1>6, <1>7, <1>8, <1>9
<1>10. ASSUME QkLow(k) <= KeyToValue(K), KeyToValue(K) <= QkHigh(k) PROVE \A i \in 1..n : K[i] = k[i]
  <2>1. g[n] * P <= f[MaxDepth] /\ f[MaxDepth] < g[n] * P + P
    BY <1>3, <1>6, <1>7, <1>10
  <2>2. f[n] = g[n]
    BY <1>4, <1>5, <1>7, <2>1, QuotientIsOne
  <2>3. n <= Len(K) /\ n <= Len(k)
    BY <1>1 DEF n
  <2> QED BY <1>1, <1>2, <1>3, <2>2, <2>3, ValueTells
<1>11. ASSUME \A i \in 1..MaxDepth : K[i] = IF i <= n THEN k[i] ELSE 0 PROVE KeyToValue(K) = QkLow(k)
  <2>1. \A i \in 1..n : K[i] = k[i]
    BY <1>1, <1>11
  <2>2. \A i \in (n + 1)..MaxDepth : K[i] = 0
    BY <1>1, <1>11
  <2> QED BY <1>3, <1>5, <1>6, <1>8, <2>1, <2>2
<1> QED BY <1>9, <1>10, <1>11 DEF n

(* A point has the code of a cell when the cell is the point's. *)
LEMMA CoverIsKey ==
  ASSUME NEW p \in Points, NEW k, IsKeyTo(k, MaxDepth)
  PROVE  /\ PointToQk(p) \in Nat
         /\ PointToQk(p) \in QkLow(k)..QkHigh(k) <=> k = Key(p, Len(k))
<1> DEFINE K == Key(p, MaxDepth)
<1>0. MaxDepth \in 0..MaxDepth /\ k \in Seq(0..3) /\ Len(k) \in 0..MaxDepth
  BY Depths DEF DepthsOk, IsKeyTo
<1>1. K \in Seq(0..3) /\ Len(K) = MaxDepth /\ \A i \in 1..MaxDepth : K[i] = Digit(p, i)
  BY <1>0, KeyType
<1>2. IsKeyTo(K, MaxDepth)
  BY <1>0, <1>1 DEF IsKeyTo
<1>3. PointToQk(p) = KeyToValue(K) /\ PointToQk(p) \in Nat
  BY <1>2, QkType DEF PointToQk
<1>4. QkLow(k) \in Nat /\ QkHigh(k) \in Nat
  BY QkType
<1> HIDE DEF K
<1>5. PointToQk(p) \in QkLow(k)..QkHigh(k) <=> \A i \in 1..Len(k) : K[i] = k[i]
  <2>1. PointToQk(p) \in QkLow(k)..QkHigh(k) <=> QkLow(k) <= KeyToValue(K) /\ KeyToValue(K) <= QkHigh(k)
    BY <1>3, <1>4
  <2> QED BY <2>1, <1>1, RangeDef
<1>6. Key(p, Len(k)) \in Seq(0..3) /\ Len(Key(p, Len(k))) = Len(k) /\ \A i \in 1..Len(k) : Key(p, Len(k))[i] = Digit(p, i)
  BY <1>0, KeyType
<1>7. \A i \in 1..Len(k) : K[i] = Digit(p, i)
  BY <1>0, <1>1
<1>8. (\A i \in 1..Len(k) : K[i] = k[i]) <=> k = Key(p, Len(k))
  <2>1. ASSUME k = Key(p, Len(k)) PROVE \A i \in 1..Len(k) : K[i] = k[i]
    BY <1>6, <1>7, <2>1
  <2>2. ASSUME \A i \in 1..Len(k) : K[i] = k[i] PROVE k = Key(p, Len(k))
    BY <1>0, <1>6, <1>7, <2>2
  <2> QED BY <2>1, <2>2
<1> QED BY <1>3, <1>5, <1>8

(* The first code of a cell is that of its digits and zeros, so the cells  *)
(* it is a code of are its ancestors and the first cells below it.         *)
LEMMA LowIsIn ==
  ASSUME NEW k, IsKeyTo(k, MaxDepth), NEW m, IsKeyTo(m, MaxDepth),
         QkLow(k) <= QkLow(m), QkLow(m) <= QkHigh(k), NEW i \in 1..Len(k), i <= Len(m)
  PROVE  m[i] = k[i]
<1> DEFINE K == [j \in 1..MaxDepth |-> IF j <= Len(m) THEN m[j] ELSE 0]
<1>1. k \in Seq(0..3) /\ m \in Seq(0..3) /\ MaxDepth \in Nat /\ Len(m) \in Nat /\ Len(k) <= MaxDepth
  BY Depths DEF DepthsOk, IsKeyTo
<1>2. \A j \in 1..MaxDepth : (IF j <= Len(m) THEN m[j] ELSE 0) \in 0..3
  BY <1>1
<1>3. K \in Seq(0..3) /\ Len(K) = MaxDepth /\ \A j \in 1..MaxDepth : K[j] = IF j <= Len(m) THEN m[j] ELSE 0
  BY <1>1, <1>2
<1> HIDE DEF K
<1>4. KeyToValue(K) = QkLow(m)
  BY <1>3, RangeDef
<1>5. \A j \in 1..Len(k) : K[j] = k[j]
  BY <1>3, <1>4, RangeDef
<1>6. i \in 1..MaxDepth
  BY <1>1
<1> QED BY <1>3, <1>5, <1>6

(* The first code of a cell is one of each of its ancestors. *)
LEMMA LowOfBelow ==
  ASSUME NEW k, IsKeyTo(k, MaxDepth), NEW m, IsKeyTo(m, MaxDepth), Len(k) <= Len(m),
         \A i \in 1..Len(k) : m[i] = k[i]
  PROVE  QkLow(k) <= QkLow(m) /\ QkLow(m) <= QkHigh(k)
<1> DEFINE K == [j \in 1..MaxDepth |-> IF j <= Len(m) THEN m[j] ELSE 0]
<1>1. k \in Seq(0..3) /\ m \in Seq(0..3) /\ MaxDepth \in Nat /\ Len(m) \in Nat /\ Len(m) <= MaxDepth /\ Len(k) \in Nat
  BY Depths DEF DepthsOk, IsKeyTo
<1>2. \A j \in 1..MaxDepth : (IF j <= Len(m) THEN m[j] ELSE 0) \in 0..3
  BY <1>1
<1>3. K \in Seq(0..3) /\ Len(K) = MaxDepth /\ \A j \in 1..MaxDepth : K[j] = IF j <= Len(m) THEN m[j] ELSE 0
  BY <1>1, <1>2
<1> HIDE DEF K
<1>4. KeyToValue(K) = QkLow(m)
  BY <1>3, RangeDef
<1>5. \A j \in 1..Len(k) : K[j] = k[j]
  BY <1>1, <1>3
<1> QED BY <1>3, <1>4, <1>5, RangeDef

-----------------------------------------------------------------------------
(* Leaves (select_leaf_cells, leaf_index_for_qk). *)

LEMMA KeysDef ==
  /\ \A k \in Keys : k \in Seq(0..3) /\ Len(k) \in 0..CapDepth /\ IsKeyTo(k, MaxDepth)
  /\ \A p \in Points : \A d \in 0..CapDepth : Key(p, d) \in Keys
<1>1. ASSUME NEW k \in Keys PROVE k \in Seq(0..3) /\ Len(k) \in 0..CapDepth /\ IsKeyTo(k, MaxDepth)
  <2>1. PICK d \in 0..CapDepth : k \in [1..d -> 0..3]
    BY DEF Keys
  <2>2. d \in Nat /\ d <= MaxDepth
    BY Depths DEF DepthsOk
  <2>3. k \in Seq(0..3) /\ Len(k) = d
    BY <2>1, <2>2
  <2> QED BY <2>1, <2>2, <2>3 DEF IsKeyTo
<1>2. ASSUME NEW p \in Points, NEW d \in 0..CapDepth PROVE Key(p, d) \in Keys
  <2>1. d \in 0..MaxDepth
    BY Depths DEF DepthsOk
  <2>2. Key(p, d) \in [1..d -> 0..3]
    BY <2>1, KeyType
  <2> QED BY <2>2 DEF Keys
<1> QED BY <1>1, <1>2

IsNodes(N) == N \in SUBSET Points /\ IsFiniteSet(N)

LEMMA CountType ==
  ASSUME NEW N, IsNodes(N), NEW k
  PROVE  /\ Count(N, k) \in Nat
         /\ \A p \in N : PointToQk(p) \in QkLow(k)..QkHigh(k) => Count(N, k) > 0
<1> DEFINE C == {p \in N : PointToQk(p) \in QkLow(k)..QkHigh(k)}
<1>1. C \subseteq N /\ IsFiniteSet(C)
  <2>1. C \subseteq N
    OBVIOUS
  <2> QED BY <2>1, FS_Subset DEF IsNodes
<1>2. Count(N, k) = Cardinality(C)
  BY DEF Count
<1>3. Cardinality(C) \in Nat /\ (Cardinality(C) = 0 <=> C = {})
  BY <1>1, FS_CardinalityType, FS_EmptySet
<1>4. ASSUME NEW p \in N, PointToQk(p) \in QkLow(k)..QkHigh(k) PROVE C # {}
  BY <1>4
<1> HIDE DEF C
<1> QED BY <1>2, <1>3, <1>4

LEMMA LeavesApart ==
  ASSUME NEW N, IsNodes(N), NEW l \in SelectLeafCells(N), NEW m \in SelectLeafCells(N),
         Len(l) <= Len(m), \A i \in 1..Len(l) : m[i] = l[i]
  PROVE  l = m
<1>1. l \in Keys /\ m \in Keys /\ (Count(N, l) <= MaxNodes \/ Len(l) = CapDepth)
  BY DEF SelectLeafCells
<1>2. l \in Seq(0..3) /\ m \in Seq(0..3) /\ Len(l) \in 0..CapDepth /\ Len(m) \in 0..CapDepth
  BY <1>1, KeysDef
<1>3. CASE Len(l) = Len(m)
  BY <1>2, <1>3
<1>4. CASE Len(l) # Len(m)
  <2>1. Len(l) < Len(m) /\ Len(l) \in 0..(Len(m) - 1)
    BY <1>2, <1>4
  <2>2. Count(N, SubSeq(m, 1, Len(l))) > MaxNodes
    BY <2>1 DEF SelectLeafCells
  <2>3. SubSeq(m, 1, Len(l)) = l
    BY <1>2, <2>1
  <2>4. Count(N, l) \in Nat /\ MaxNodes \in Nat
    BY CountType, Depths DEF DepthsOk
  <2>5. Count(N, l) > MaxNodes
    BY <2>2, <2>3
  <2>6. Len(l) # CapDepth
    BY <1>2, <2>1
  <2> QED BY <1>1, <2>4, <2>5, <2>6
<1> QED BY <1>3, <1>4

(* Every node is in a leaf. *)
LEMMA NodesAreCovered ==
  ASSUME NEW N, IsNodes(N), NEW p \in N
  PROVE  \E l \in SelectLeafCells(N) : l = Key(p, Len(l))
<1>0. p \in Points /\ CapDepth \in Nat /\ MaxDepth \in Nat /\ CapDepth <= MaxDepth /\ MaxNodes \in Nat
  BY Depths DEF IsNodes, DepthsOk
<1> DEFINE D == {d \in 0..CapDepth : Count(N, Key(p, d)) <= MaxNodes \/ d = CapDepth}
           d == MinId(D)
<1>1. D \in SUBSET Int /\ IsFiniteSet(D) /\ D # {}
  <2>1. IsFiniteSet(0..CapDepth)
    BY <1>0, FS_Interval
  <2>2. D \subseteq 0..CapDepth
    OBVIOUS
  <2>3. CapDepth \in D
    BY <1>0
  <2> QED BY <2>1, <2>2, <2>3, FS_Subset
<1>2. d \in D /\ \A e \in D : d <= e
  BY <1>1, MinIdDef
<1> HIDE DEF d
<1>3. d \in 0..CapDepth /\ (Count(N, Key(p, d)) <= MaxNodes \/ d = CapDepth) /\ d \in 0..MaxDepth
  BY <1>2, <1>0
<1>4. Key(p, d) \in Keys /\ Len(Key(p, d)) = d /\ IsKeyTo(Key(p, d), MaxDepth)
  BY <1>0, <1>3, KeysDef, KeyType
<1>5. ASSUME NEW e \in 0..(d - 1) PROVE Count(N, SubSeq(Key(p, d), 1, e)) > MaxNodes
  <2>1. e \in 0..CapDepth /\ e \in 0..d /\ ~(d <= e) /\ e # CapDepth
    BY <1>0, <1>3
  <2>2. e \notin D
    BY <2>1, <1>2
  <2>3. SubSeq(Key(p, d), 1, e) = Key(p, e)
    BY <1>0, <1>3, <2>1, KeyCut
  <2>4. Count(N, Key(p, e)) \in Nat
    BY CountType
  <2>5. ~(Count(N, Key(p, e)) <= MaxNodes)
    BY <2>1, <2>2
  <2>6. Count(N, Key(p, e)) > MaxNodes
    BY <1>0, <2>4, <2>5
  <2> QED BY <2>3, <2>6
<1>6. Count(N, Key(p, d)) > 0
  <2>1. PointToQk(p) \in QkLow(Key(p, d))..QkHigh(Key(p, d))
    BY <1>0, <1>4, CoverIsKey
  <2> QED BY <2>1, CountType
<1>7. Key(p, d) \in SelectLeafCells(N)
  BY <1>3, <1>4, <1>5, <1>6 DEF SelectLeafCells
<1> QED BY <1>4, <1>7

IsLeaves(N, L) == IsNodes(N) /\ L = SelectLeafCells(N)

LEMMA LeavesExist ==
  ASSUME NEW N, NEW L, IsLeaves(N, L)
  PROVE  L # {} /\ \A l \in L : l \in Keys
<1>1. L = SelectLeafCells(N) /\ IsNodes(N)
  BY DEF IsLeaves
<1>2. CASE N = {}
  <2>1. << >> \in Keys /\ Len(<< >>) = 0
    <3>1. 0 \in 0..CapDepth /\ << >> \in [1..0 -> 0..3]
      BY Depths DEF DepthsOk
    <3> QED BY <3>1 DEF Keys
  <2>2. Count(N, << >>) <= MaxNodes
    <3>1. {p \in N : PointToQk(p) \in QkLow(<< >>)..QkHigh(<< >>)} = {}
      BY <1>2
    <3> QED BY <3>1, FS_EmptySet, Depths DEF Count, DepthsOk
  <2>3. << >> \in SelectLeafCells(N)
    BY <2>1, <2>2 DEF SelectLeafCells
  <2> QED BY <1>1, <2>3 DEF SelectLeafCells
<1>3. CASE N # {}
  BY <1>1, <1>3, NodesAreCovered DEF SelectLeafCells
<1> QED BY <1>2, <1>3

LEMMA LeafForQkDef ==
  ASSUME NEW L \in SUBSET Keys, L # {}, NEW qk \in Nat
  PROVE  /\ LeafForQk(L, qk) \in L
         /\ \A l \in L : QkLow(l) <= qk =>
              QkLow(LeafForQk(L, qk)) <= qk /\ QkLow(l) <= QkLow(LeafForQk(L, qk))
         /\ (\A l \in L : ~(QkLow(l) <= qk)) => \A l \in L : QkLow(LeafForQk(L, qk)) <= QkLow(l)
<1>0. \A l \in L : QkLow(l) \in Nat
  BY KeysDef, QkType
<1> DEFINE B == {k \in L : QkLow(k) <= qk}
<1>1. CASE B = {}
  <2>1. LeafForQk(L, qk) = CHOOSE k \in L : \A l \in L : QkLow(k) <= QkLow(l)
    BY <1>1 DEF LeafForQk
  <2>2. PICK l0 \in L : TRUE
    OBVIOUS
  <2> DEFINE V == {QkLow(k) : k \in {m \in L : QkLow(m) <= QkLow(l0)}}
  <2>3. V \in SUBSET Int /\ IsFiniteSet(V) /\ V # {}
    <3>1. QkLow(l0) \in Nat /\ IsFiniteSet(0..QkLow(l0))
      BY <1>0, FS_Interval
    <3>2. V \subseteq 0..QkLow(l0)
      BY <1>0
    <3>3. QkLow(l0) \in V
      BY <3>1
    <3> QED BY <3>1, <3>2, <3>3, FS_Subset
  <2>4. MinId(V) \in V /\ \A v \in V : MinId(V) <= v
    BY <2>3, MinIdDef
  <2>5. PICK k \in L : QkLow(k) <= QkLow(l0) /\ MinId(V) = QkLow(k)
    BY <2>4
  <2>6. ASSUME NEW l \in L PROVE QkLow(k) <= QkLow(l)
    <3>1. CASE QkLow(l) <= QkLow(l0)
      <4>1. QkLow(l) \in V
        BY <3>1
      <4> HIDE DEF V
      <4> QED BY <2>4, <2>5, <4>1
    <3>2. CASE ~(QkLow(l) <= QkLow(l0))
      BY <2>5, <3>2, <1>0
    <3> QED BY <3>1, <3>2
  <2>7. LeafForQk(L, qk) \in L /\ \A l \in L : QkLow(LeafForQk(L, qk)) <= QkLow(l)
    BY <2>1, <2>6
  <2> QED BY <2>7, <1>1
<1>2. CASE B # {}
  <2>1. LeafForQk(L, qk) = CHOOSE k \in B : \A l \in B : QkLow(l) <= QkLow(k)
    BY <1>2 DEF LeafForQk
  <2> DEFINE V == {QkLow(k) : k \in B}
  <2>2. V \in SUBSET Int /\ IsFiniteSet(V) /\ V # {}
    <3>1. IsFiniteSet(0..qk)
      BY FS_Interval
    <3>2. V \subseteq 0..qk
      BY <1>0
    <3>3. V # {}
      BY <1>2
    <3> QED BY <3>1, <3>2, <3>3, FS_Subset
  <2>3. MaxId(V) \in V /\ \A v \in V : v <= MaxId(V)
    BY <2>2, MaxIdDef
  <2>4. PICK k \in B : MaxId(V) = QkLow(k)
    BY <2>3
  <2>5. \A l \in B : QkLow(l) <= QkLow(k)
    <3>1. \A l \in B : QkLow(l) \in V
      OBVIOUS
    <3> HIDE DEF V, B
    <3> QED BY <2>3, <2>4, <3>1
  <2>6. LeafForQk(L, qk) \in B /\ \A l \in B : QkLow(l) <= QkLow(LeafForQk(L, qk))
    <3> HIDE DEF B
    <3> QED BY <2>1, <2>5
  <2> QED BY <2>6
<1> QED BY <1>1, <1>2

(* The leaf that has a code is the one found for it. *)
LEMMA CoverIsFound ==
  ASSUME NEW N, NEW L, IsLeaves(N, L), NEW p \in Points, NEW l \in L, l = Key(p, Len(l))
  PROVE  PointCell(L, p) = l
<1>1. L = SelectLeafCells(N) /\ IsNodes(N) /\ L \in SUBSET Keys /\ L # {}
  BY LeavesExist DEF IsLeaves
<1>2. IsKeyTo(l, MaxDepth)
  BY <1>1, KeysDef
<1> DEFINE qk == PointToQk(p)
           m == LeafForQk(L, qk)
<1>3. qk \in Nat /\ QkLow(l) <= qk /\ qk <= QkHigh(l)
  <2>1. qk \in Nat /\ qk \in QkLow(l)..QkHigh(l)
    BY <1>2, CoverIsKey
  <2>2. QkLow(l) \in Nat /\ QkHigh(l) \in Nat
    BY <1>2, QkType
  <2> QED BY <2>1, <2>2
<1> HIDE DEF qk
<1>4. m \in L /\ QkLow(m) <= qk /\ QkLow(l) <= QkLow(m)
  BY <1>1, <1>3, LeafForQkDef
<1> HIDE DEF m
<1>5. IsKeyTo(m, MaxDepth) /\ QkLow(m) \in Nat /\ QkHigh(l) \in Nat
  BY <1>1, <1>2, <1>4, KeysDef, QkType
<1>6. QkLow(m) <= QkHigh(l)
  BY <1>3, <1>4, <1>5
<1>7. \A i \in 1..Len(l) : i <= Len(m) => m[i] = l[i]
  BY <1>2, <1>4, <1>5, <1>6, LowIsIn
<1>8. Len(l) \in Nat /\ Len(m) \in Nat
  BY <1>1, <1>4, KeysDef
<1>9. CASE Len(l) <= Len(m)
  <2>1. \A i \in 1..Len(l) : m[i] = l[i]
    BY <1>7, <1>8, <1>9
  <2>2. l = m
    BY <1>1, <1>4, <1>9, <2>1, LeavesApart
  <2> QED BY <2>2 DEF m, qk, PointCell
<1>10. CASE Len(m) <= Len(l)
  <2>1. \A i \in 1..Len(m) : l[i] = m[i]
    BY <1>7, <1>8, <1>10
  <2>2. l = m
    BY <1>1, <1>4, <1>10, <2>1, LeavesApart
  <2> QED BY <2>2 DEF m, qk, PointCell
<1> QED BY <1>8, <1>9, <1>10

-----------------------------------------------------------------------------
(* Placement (containing_cells_v2_np) and reads (_cells_for_present). *)

IsBox(b) == b.lo \in Points /\ b.hi \in Points /\ \A c \in 1..2 : b.lo[c] <= b.hi[c]

LEMMA CommonDepthDef ==
  ASSUME NEW box, IsBox(box)
  PROVE  CommonDepth(box) \in 0..CapDepth /\ Key(box.lo, CommonDepth(box)) = Key(box.hi, CommonDepth(box))
<1> DEFINE D == {d \in 0..CapDepth : Key(box.lo, d) = Key(box.hi, d)}
           m == MaxId(D)
           Is(d) == /\ Key(box.lo, d) = Key(box.hi, d)
                    /\ d = CapDepth \/ Digit(box.lo, d + 1) # Digit(box.hi, d + 1)
<1>1. CommonDepth(box) = CHOOSE d \in 0..CapDepth : Is(d)
  BY DEF CommonDepth
<1>2. CapDepth \in Nat
  BY Depths DEF DepthsOk
<1>3. D \in SUBSET Int /\ IsFiniteSet(D) /\ D # {}
  <2>1. IsFiniteSet(0..CapDepth)
    BY <1>2, FS_Interval
  <2>2. D \subseteq 0..CapDepth
    OBVIOUS
  <2>3. Key(box.lo, 0) = Key(box.hi, 0)
    BY DEF Key
  <2>4. 0 \in D
    BY <1>2, <2>3
  <2>5. D \in SUBSET Int
    BY <1>2
  <2> QED BY <2>1, <2>2, <2>4, <2>5, FS_Subset
<1>4. m \in D /\ \A d \in D : d <= m
  BY <1>3, MaxIdDef
<1> HIDE DEF m
<1>5. m \in 0..CapDepth /\ Key(box.lo, m) = Key(box.hi, m)
  BY <1>4
<1>6. ASSUME m # CapDepth PROVE Digit(box.lo, m + 1) # Digit(box.hi, m + 1)
  <2> SUFFICES ASSUME Digit(box.lo, m + 1) = Digit(box.hi, m + 1) PROVE FALSE
    OBVIOUS
  <2>1. m + 1 \in 0..CapDepth /\ m \in Nat
    BY <1>2, <1>5, <1>6
  <2>2. ASSUME NEW i \in 1..(m + 1) PROVE Digit(box.lo, i) = Digit(box.hi, i)
    <3>1. CASE i = m + 1
      BY <3>1
    <3>2. CASE i # m + 1
      <4>1. i \in 1..m
        BY <2>1, <3>2
      <4>2. Key(box.lo, m)[i] = Digit(box.lo, i) /\ Key(box.hi, m)[i] = Digit(box.hi, i)
        BY <4>1 DEF Key
      <4> QED BY <1>5, <4>2
    <3> QED BY <3>1, <3>2
  <2>3. Key(box.lo, m + 1) = Key(box.hi, m + 1)
    BY <2>2 DEF Key
  <2>4. m + 1 \in D
    BY <2>1, <2>3
  <2>5. m + 1 <= m
    BY <1>4, <2>4
  <2> QED BY <2>1, <2>5
<1>7. Is(m)
  BY <1>5, <1>6
<1> HIDE DEF Is
<1>8. CommonDepth(box) \in 0..CapDepth /\ Is(CommonDepth(box))
  BY <1>1, <1>5, <1>7
<1> QED BY <1>8 DEF Is

LEMMA RoundedDepthDef ==
  ASSUME NEW depth \in Nat
  PROVE  RoundedDepth(depth) \in AncestorDepths /\ RoundedDepth(depth) \in Nat /\ RoundedDepth(depth) <= depth
<1> DEFINE D == {d \in AncestorDepths : d <= depth}
<1>1. AncestorDepths \subseteq Nat /\ 0 \in AncestorDepths
  BY LayoutAssumption
<1>2. D \in SUBSET Int /\ IsFiniteSet(D) /\ D # {}
  <2>1. IsFiniteSet(0..depth)
    BY FS_Interval
  <2>2. D \subseteq 0..depth
    <3>1. \A d \in D : d \in Nat /\ d <= depth
      BY <1>1
    <3> HIDE DEF D
    <3> QED BY <3>1
  <2>3. 0 \in D
    BY <1>1
  <2> QED BY <2>1, <2>2, <2>3, FS_Subset
<1>3. MaxId(D) \in D /\ \A d \in D : d <= MaxId(D)
  BY <1>2, MaxIdDef
<1>4. \E d \in AncestorDepths : d <= depth /\ \A e \in AncestorDepths : e <= depth => e <= d
  BY <1>3
<1>5. RoundedDepth(depth) \in AncestorDepths /\ RoundedDepth(depth) <= depth
  BY <1>4 DEF RoundedDepth
<1> QED BY <1>1, <1>5

(* The depth a box is placed at. *)
IsPlaced(L, box, d) ==
  /\ ContainingCell(L, box) = Key(box.lo, d)
  /\ d \in 0..CapDepth /\ d <= CommonDepth(box) /\ d <= Len(PointCell(L, box.lo))
  /\ \/ d \in AncestorDepths
     \/ d = Len(PointCell(L, box.lo)) /\ PointToQk(box.lo) <= QkHigh(PointCell(L, box.lo))

LEMMA PlacementDef ==
  ASSUME NEW N, NEW L, IsLeaves(N, L), NEW box, IsBox(box)
  PROVE  /\ PointCell(L, box.lo) \in L /\ PointToQk(box.lo) \in Nat
         /\ \E d : IsPlaced(L, box, d)
<1> DEFINE qk == PointToQk(box.lo)
           leaf == LeafForQk(L, qk)
           depth == Lower(CommonDepth(box), Len(leaf))
           isLeaf == depth = Len(leaf) /\ ContainsQk(leaf, qk)
           d == IF isLeaf THEN depth ELSE RoundedDepth(depth)
<1>1. L \in SUBSET Keys /\ L # {}
  BY LeavesExist
<1>2. qk \in Nat
  <2>1. PICK l \in L : TRUE
    BY <1>1
  <2>2. IsKeyTo(l, MaxDepth)
    BY <1>1, KeysDef
  <2> QED BY <2>2, CoverIsKey DEF IsBox
<1>3. leaf \in L /\ leaf = PointCell(L, box.lo)
  BY <1>1, <1>2, LeafForQkDef DEF PointCell
<1>4. Len(leaf) \in 0..CapDepth
  BY <1>1, <1>3, KeysDef
<1>5. CommonDepth(box) \in 0..CapDepth
  BY CommonDepthDef
<1>6. ContainingCell(L, box) = Key(box.lo, d)
  BY DEF ContainingCell
<1> HIDE DEF leaf, qk
<1>7. depth \in 0..CapDepth /\ depth <= CommonDepth(box) /\ depth <= Len(leaf) /\ CapDepth \in Nat
  BY <1>4, <1>5, Depths DEF Lower, DepthsOk
<1> HIDE DEF depth
<1>8. RoundedDepth(depth) \in AncestorDepths /\ RoundedDepth(depth) \in Nat /\ RoundedDepth(depth) <= depth
  BY <1>7, RoundedDepthDef
<1>9. d \in Nat /\ d <= depth /\ (d \in AncestorDepths \/ (d = Len(leaf) /\ ContainsQk(leaf, qk)))
  BY <1>7, <1>8
<1> HIDE DEF d
<1>10. d \in 0..CapDepth /\ d <= CommonDepth(box) /\ d <= Len(leaf)
  BY <1>4, <1>5, <1>7, <1>9
<1>11. IsPlaced(L, box, d)
  BY <1>3, <1>6, <1>9, <1>10 DEF IsPlaced, ContainsQk, qk
<1> QED BY <1>2, <1>3, <1>11 DEF qk

(* The cell of a box is the one of each of its points. *)
LEMMA CellOfPoints ==
  ASSUME NEW N, NEW L, IsLeaves(N, L), NEW box, IsBox(box), NEW d, IsPlaced(L, box, d),
         NEW r \in Points, \A c \in 1..2 : box.lo[c] <= r[c] /\ r[c] <= box.hi[c],
         NEW e \in 0..d
  PROVE  Key(r, e) = Key(box.lo, e)
<1>1. box.lo \in Points /\ box.hi \in Points
  BY DEF IsBox
<1>2. CommonDepth(box) \in 0..MaxDepth /\ d \in 0..MaxDepth /\ e \in 0..CommonDepth(box)
  BY CommonDepthDef, Depths DEF IsPlaced, DepthsOk
<1>3. Key(r, CommonDepth(box)) = Key(box.lo, CommonDepth(box))
  BY <1>1, <1>2, CommonDepthDef, BetweenCorners
<1> DEFINE c == CommonDepth(box)
<1> HIDE DEF c
<1>4. SubSeq(Key(r, c), 1, e) = Key(r, e) /\ SubSeq(Key(box.lo, c), 1, e) = Key(box.lo, e)
  BY <1>1, <1>2, KeyCut DEF c
<1> QED BY <1>3, <1>4 DEF c

LEMMA PointsOfDef ==
  ASSUME NEW box, IsBox(box), NEW r \in PointsOf(box)
  PROVE  r \in Points /\ \A c \in 1..2 : box.lo[c] <= r[c] /\ r[c] <= box.hi[c]
<1>1. /\ box.lo[1] \in Coords /\ box.lo[2] \in Coords /\ box.hi[1] \in Coords /\ box.hi[2] \in Coords
  BY DEF IsBox, Points
<1>2. \A x \in Coords : x \in Nat /\ x <= 2 * Side
  BY SideIsPower DEF Coords
<1>3. \A x \in Nat : x <= 2 * Side => x \in Coords
  BY SideIsPower DEF Coords
<1>4. r = <<r[1], r[2]>> /\ r[1] \in box.lo[1]..box.hi[1] /\ r[2] \in box.lo[2]..box.hi[2]
  BY DEF PointsOf
<1>5. r[1] \in Nat /\ r[2] \in Nat /\ box.lo[1] <= r[1] /\ r[1] <= box.hi[1] /\ box.lo[2] <= r[2] /\ r[2] <= box.hi[2]
  BY <1>1, <1>2, <1>4
<1>6. r[1] \in Coords /\ r[2] \in Coords
  BY <1>1, <1>2, <1>3, <1>5, SideIsPower
<1>7. r \in Points
  BY <1>4, <1>6 DEF Points
<1> QED BY <1>5, <1>7

(* A way is read in the cell that an update gave it. *)
LEMMA DeltaOnlyHolds ==
  ASSUME NEW N, NEW L, IsLeaves(N, L), NEW box, IsBox(box)
  PROVE  DeltaOnlyIsRead(N, L, box)
<1>1. PICK d : IsPlaced(L, box, d)
  BY PlacementDef
<1> DEFINE base == WayCells(L, N)
           k == ContainingCell(L, box)
<1> SUFFICES ASSUME k \notin base, NEW r \in PointsOf(box)
             PROVE  k \in CellsForPresent(L, "way", PointBox(r), base \cup {k}, base)
  BY DEF DeltaOnlyIsRead
<1>2. r \in Points /\ \A c \in 1..2 : box.lo[c] <= r[c] /\ r[c] <= box.hi[c]
  BY PointsOfDef
<1>3. d \in 0..d /\ d \in 0..MaxDepth
  BY <1>1, Depths DEF IsPlaced, DepthsOk
<1>4. k = Key(r, d)
  BY <1>1, <1>2, <1>3, CellOfPoints DEF IsPlaced
<1>5. Intersects(PointBox(r), CellBox(k))
  BY <1>2, <1>3, <1>4, InItsCell
<1> HIDE DEF k, base
<1> QED BY <1>5 DEF CellsForPresent

(* The leaf of a point gives the cells that a query of the point wants. *)
LEMMA LeafIsWanted ==
  ASSUME NEW N, NEW L, IsLeaves(N, L), NEW r \in Points, NEW l \in L, l = Key(r, Len(l)),
         NEW t, NEW e \in 0..Len(l), t = "node" \/ e = Len(l) \/ e \in AncestorDepths
  PROVE  Key(r, e) \in Wanted(L, t, PointBox(r))
<1>1. Len(l) \in 0..MaxDepth
  BY LeavesExist, KeysDef, Depths DEF DepthsOk
<1>2. l \in LeavesIntersecting(L, PointBox(r))
  BY <1>1, InItsCell DEF LeavesIntersecting
<1>3. SubSeq(l, 1, e) = Key(r, e)
  BY <1>1, KeyCut
<1> QED BY <1>2, <1>3 DEF Wanted

(* The cell of a box is wanted by a query of a point that a leaf covers:   *)
(* it is a leaf itself, or an ancestor of that leaf at an allowed depth,   *)
(* since a leaf above it would have been the leaf of the box.              *)
LEMMA CellIsWanted ==
  ASSUME NEW N, NEW L, IsLeaves(N, L), NEW box, IsBox(box), NEW r \in PointsOf(box),
         NEW l \in L, l = Key(r, Len(l))
  PROVE  ContainingCell(L, box) \in Wanted(L, "way", PointBox(r))
<1>0. r \in Points /\ (\A c \in 1..2 : box.lo[c] <= r[c] /\ r[c] <= box.hi[c]) /\ box.lo \in Points
  BY PointsOfDef DEF IsBox
<1>1. PICK d : IsPlaced(L, box, d)
  BY PlacementDef
<1> DEFINE m == PointCell(L, box.lo)
           k == ContainingCell(L, box)
           qk == PointToQk(box.lo)
<1>2. /\ d \in 0..CapDepth /\ d <= Len(m) /\ k = Key(box.lo, d)
      /\ d \in AncestorDepths \/ (d = Len(m) /\ qk <= QkHigh(m))
  BY <1>1 DEF IsPlaced
<1>3. m \in L /\ qk \in Nat
  BY PlacementDef
<1>4. /\ \A x \in L : x \in Keys /\ Len(x) \in Nat /\ IsKeyTo(x, MaxDepth) /\ x \in Seq(0..3)
      /\ d \in Nat /\ d \in 0..MaxDepth /\ d \in 0..d
  BY LeavesExist, KeysDef, <1>2, Depths DEF DepthsOk
<1>5. \A e \in 0..d : Key(r, e) = Key(box.lo, e)
  BY <1>0, <1>1, CellOfPoints
<1>6. k = Key(r, d)
  BY <1>2, <1>4, <1>5
<1>7. Len(l) <= d => l = m
  <2> SUFFICES ASSUME Len(l) <= d PROVE l = m
    OBVIOUS
  <2>1. Len(l) \in 0..d
    BY <1>4
  <2>2. l = Key(box.lo, Len(l))
    BY <1>5, <2>1
  <2> QED BY <1>0, <2>2, CoverIsFound
<1> HIDE DEF m, k, qk
<1>8. d <= Len(l)
  <2> SUFFICES ASSUME ~(d <= Len(l)) PROVE FALSE
    OBVIOUS
  <2>1. Len(l) <= d /\ Len(l) # d /\ Len(l) \in Nat
    BY <1>4
  <2>2. l = m
    BY <1>7, <2>1
  <2> QED BY <1>2, <1>4, <2>1, <2>2
<1>9. d \in 0..Len(l)
  BY <1>4, <1>8
<1>10. CASE d \in AncestorDepths \/ d = Len(l)
  <2>1. Key(r, d) \in Wanted(L, "way", PointBox(r))
    BY <1>0, <1>9, <1>10, LeafIsWanted
  <2> QED BY <1>6, <2>1 DEF k
<1>11. CASE d \notin AncestorDepths /\ d # Len(l)
  <2>1. d = Len(m) /\ qk <= QkHigh(m) /\ d < Len(l)
    BY <1>2, <1>4, <1>8, <1>11
  <2>2. k \in Seq(0..3) /\ Len(k) = d /\ IsKeyTo(k, MaxDepth)
    BY <1>0, <1>2, <1>4, KeyType DEF IsKeyTo
  <2>3. QkLow(k) \in Nat /\ QkHigh(k) \in Nat /\ QkLow(m) \in Nat /\ QkHigh(m) \in Nat /\ QkLow(l) \in Nat
    BY <1>3, <1>4, <2>2, QkType
  <2>4. qk \in QkLow(k)..QkHigh(k)
    BY <1>0, <1>2, <2>2, CoverIsKey DEF qk
  <2>5. L \in SUBSET Keys /\ L # {}
    BY LeavesExist
  <2>6. m = LeafForQk(L, qk)
    BY DEF m, qk, PointCell
  <2>7. QkLow(m) <= qk
    <3> SUFFICES ASSUME ~(QkLow(m) <= qk) PROVE FALSE
      OBVIOUS
    <3>1. \A x \in L : ~(QkLow(x) <= qk)
      BY <1>3, <2>5, <2>6, LeafForQkDef
    <3>2. QkLow(m) <= QkLow(l)
      BY <1>3, <2>5, <2>6, <3>1, LeafForQkDef
    <3>3. \A i \in 1..Len(k) : l[i] = k[i]
      <4>1. Len(l) \in 0..MaxDepth
        BY <1>4, Depths DEF IsKeyTo, DepthsOk
      <4>2. \A i \in 1..Len(l) : l[i] = Digit(r, i)
        BY <1>0, <4>1, KeyType
      <4>3. \A i \in 1..d : k[i] = Digit(r, i)
        BY <1>0, <1>4, <1>6, KeyType
      <4> QED BY <1>4, <2>1, <2>2, <4>2, <4>3
    <3>4. Len(k) <= Len(l)
      BY <2>1, <2>2, <1>4
    <3>5. QkLow(l) <= QkHigh(k)
      BY <1>4, <2>2, <3>3, <3>4, LowOfBelow
    <3>6. QkLow(k) <= QkLow(m) /\ QkLow(m) <= QkHigh(k)
      BY <1>3, <2>3, <2>4, <3>2, <3>5
    <3>7. \A i \in 1..Len(k) : m[i] = k[i]
      BY <1>3, <1>4, <2>1, <2>2, <3>6, LowIsIn
    <3>8. m = k
      BY <1>3, <1>4, <2>1, <2>2, <3>7
    <3> QED BY <1>3, <2>3, <2>4, <3>8
  <2>8. m = k
    <3>1. qk \in QkLow(m)..QkHigh(m)
      BY <1>3, <2>1, <2>3, <2>7
    <3>2. m = Key(box.lo, Len(m))
      BY <1>0, <1>3, <1>4, <3>1, CoverIsKey DEF qk
    <3> QED BY <1>2, <2>1, <3>2
  <2>9. m = Key(r, Len(m)) /\ Len(m) \in 0..Len(m)
    BY <1>3, <1>4, <1>6, <2>1, <2>8
  <2>10. Key(r, Len(m)) \in Wanted(L, "way", PointBox(r))
    BY <1>0, <1>3, <2>9, LeafIsWanted
  <2> QED BY <2>8, <2>9, <2>10 DEF k
<1> QED BY <1>10, <1>11

(* The statistics of a row group contain each of its boxes. *)
LEMMA RowGroupHolds ==
  ASSUME NEW boxes, \A b \in boxes : IsBox(b), NEW box \in boxes
  PROVE  \A c \in 1..2 : /\ RowGroupBox(boxes).lo[c] \in Coords /\ RowGroupBox(boxes).hi[c] \in Coords
                         /\ RowGroupBox(boxes).lo[c] <= box.lo[c]
                         /\ box.hi[c] <= RowGroupBox(boxes).hi[c]
<1> DEFINE Los(c) == {b.lo[c] : b \in boxes}
           His(c) == {b.hi[c] : b \in boxes}
           Least(S) == CHOOSE x \in S : \A k \in S : x <= k
           Most(S) == CHOOSE x \in S : \A k \in S : k <= x
<1>1. RowGroupBox(boxes) = [lo |-> [i \in 1..2 |-> Least(Los(i))], hi |-> [i \in 1..2 |-> Most(His(i))]]
  BY DEF RowGroupBox
<1>2. ASSUME NEW S \in SUBSET Coords, S # {}
      PROVE  /\ Least(S) \in S /\ Most(S) \in S
             /\ (\A x \in S : Least(S) <= x) /\ (\A x \in S : x <= Most(S))
  <2>1. IsFiniteSet(Coords) /\ Coords \in SUBSET Int
    <3>1. 2 * Side \in Int
      BY SideIsPower
    <3> QED BY <3>1, FS_Interval DEF Coords
  <2>2. IsFiniteSet(S) /\ S \in SUBSET Int
    BY <1>2, <2>1, FS_Subset
  <2>3. Least(S) = MinId(S) /\ Most(S) = MaxId(S)
    BY DEF MinId, MaxId
  <2>4. /\ MinId(S) \in S /\ MaxId(S) \in S
        /\ (\A x \in S : MinId(S) <= x) /\ (\A x \in S : x <= MaxId(S))
    BY <1>2, <2>2, MinIdDef, MaxIdDef
  <2> QED BY <2>3, <2>4
<1> HIDE DEF Least, Most
<1>3. ASSUME NEW c \in 1..2
      PROVE  /\ Los(c) \in SUBSET Coords /\ Los(c) # {} /\ box.lo[c] \in Los(c)
             /\ His(c) \in SUBSET Coords /\ His(c) # {} /\ box.hi[c] \in His(c)
  BY DEF IsBox, Points
<1>4. ASSUME NEW c \in 1..2
      PROVE  /\ Least(Los(c)) \in Coords /\ Most(His(c)) \in Coords
             /\ Least(Los(c)) <= box.lo[c] /\ box.hi[c] <= Most(His(c))
  <2> HIDE DEF Los, His
  <2> QED BY <1>2, <1>3
<1>5. \A c \in 1..2 : RowGroupBox(boxes).lo[c] = Least(Los(c)) /\ RowGroupBox(boxes).hi[c] = Most(His(c))
  BY <1>1
<1> QED BY <1>4, <1>5

LEMMA SpannedIsBox ==
  ASSUME NEW p \in Points, NEW q \in Points
  PROVE  IsBox(Spanned(p, q))
<1>1. \A c \in 1..2 : p[c] \in Coords /\ q[c] \in Coords /\ p[c] \in Nat /\ q[c] \in Nat
  BY SideIsPower DEF Points, Coords
<1>2. ASSUME NEW c \in 1..2
      PROVE  /\ Lower(p[c], q[c]) \in Coords /\ p[c] + q[c] - Lower(p[c], q[c]) \in Coords
             /\ Lower(p[c], q[c]) <= p[c] + q[c] - Lower(p[c], q[c])
  <2>1. p[c] \in Coords /\ q[c] \in Coords /\ p[c] \in Nat /\ q[c] \in Nat
    BY <1>1
  <2>2. CASE p[c] < q[c]
    <3>1. Lower(p[c], q[c]) = p[c] /\ p[c] + q[c] - p[c] = q[c]
      BY <2>1, <2>2 DEF Lower
    <3> QED BY <2>1, <2>2, <3>1
  <2>3. CASE ~(p[c] < q[c])
    <3>1. Lower(p[c], q[c]) = q[c] /\ p[c] + q[c] - q[c] = p[c]
      BY <2>1, <2>3 DEF Lower
    <3> QED BY <2>1, <2>3, <3>1
  <2> QED BY <2>2, <2>3
<1> DEFINE lo == <<Lower(p[1], q[1]), Lower(p[2], q[2])>>
           hi == <<p[1] + q[1] - Lower(p[1], q[1]), p[2] + q[2] - Lower(p[2], q[2])>>
<1>3. Spanned(p, q).lo = lo /\ Spanned(p, q).hi = hi
  BY DEF Spanned
<1>4. lo \in Points /\ hi \in Points
  BY <1>2 DEF Points
<1>5. \A c \in 1..2 : lo[c] <= hi[c]
  BY <1>2
<1> HIDE DEF lo, hi
<1> QED BY <1>3, <1>4, <1>5 DEF IsBox

(* What the build has placed is read where the leaves cover it. *)
LEMMA CoveredHolds ==
  ASSUME NEW N, NEW L, IsLeaves(N, L), NEW box, IsBox(box)
  PROVE  CoveredIsRead(N, L, box)
<1> DEFINE base == WayCells(L, N)
           k == ContainingCell(L, box)
           file == {b \in WayBoxes(N) : ContainingCell(L, b) = k}
           cells == NodeCells(L, N)
<1> SUFFICES ASSUME NEW r \in PointsOf(box), IsCovered(L, r)
             PROVE  /\ k \in CellsForPresent(L, "way", PointBox(r), base \cup {k}, base)
                    /\ IsRead({file \cup {box}}, PointBox(r))
                    /\ r \in N => PointCell(L, r) \in CellsForPresent(L, "node", PointBox(r), cells, cells)
  BY DEF CoveredIsRead
<1>1. r \in Points /\ \A c \in 1..2 : box.lo[c] <= r[c] /\ r[c] <= box.hi[c]
  BY PointsOfDef
<1>2. PICK l \in L : PointToQk(r) \in QkLow(l)..QkHigh(l)
  BY DEF IsCovered
<1>3. l \in Keys /\ Len(l) \in Nat /\ IsKeyTo(l, MaxDepth)
  BY LeavesExist, KeysDef
<1>4. l = Key(r, Len(l))
  BY <1>1, <1>2, <1>3, CoverIsKey
<1>5. k \in CellsForPresent(L, "way", PointBox(r), base \cup {k}, base)
  <2>1. k \in Wanted(L, "way", PointBox(r))
    BY <1>4, CellIsWanted
  <2> HIDE DEF k, base
  <2> QED BY <2>1 DEF CellsForPresent
<1>6. IsRead({file \cup {box}}, PointBox(r))
  <2> DEFINE F == file \cup {box}
  <2>1. \A b \in F : IsBox(b)
    <3>1. \A b \in WayBoxes(N) : IsBox(b)
      BY SpannedIsBox DEF WayBoxes, IsLeaves, IsNodes
    <3> QED BY <3>1
  <2>2. box \in F
    OBVIOUS
  <2> HIDE DEF F
  <2>3. \A c \in 1..2 : /\ RowGroupBox(F).lo[c] \in Coords /\ RowGroupBox(F).hi[c] \in Coords
                        /\ RowGroupBox(F).lo[c] <= box.lo[c] /\ box.hi[c] <= RowGroupBox(F).hi[c]
    BY <2>1, <2>2, RowGroupHolds
  <2>4. \A x \in Coords : x \in Nat
    BY SideIsPower DEF Coords
  <2>5. \A c \in 1..2 : box.lo[c] \in Coords /\ box.hi[c] \in Coords /\ r[c] \in Coords
    BY <1>1 DEF IsBox, Points
  <2>6. \A c \in 1..2 : RowGroupBox(F).lo[c] <= r[c] /\ RowGroupBox(F).hi[c] >= r[c]
    BY <1>1, <2>3, <2>4, <2>5
  <2>7. PointBox(r).lo = r /\ PointBox(r).hi = r
    BY DEF PointBox
  <2>8. Intersects(RowGroupBox(F), PointBox(r))
    BY <2>6, <2>7 DEF Intersects
  <2>9. IsRead({F}, PointBox(r))
    BY <2>8 DEF IsRead
  <2> QED BY <2>9 DEF F
<1>7. ASSUME r \in N PROVE PointCell(L, r) \in CellsForPresent(L, "node", PointBox(r), cells, cells)
  <2>1. PointCell(L, r) = l
    BY <1>1, <1>4, CoverIsFound
  <2>2. PointCell(L, r) \in cells
    BY <1>7 DEF NodeCells
  <2>3. Len(l) \in 0..Len(l)
    BY <1>3
  <2>4. Key(r, Len(l)) \in Wanted(L, "node", PointBox(r))
    BY <1>1, <1>4, <2>3, LeafIsWanted
  <2>5. l \in Wanted(L, "node", PointBox(r))
    BY <1>4, <2>4
  <2> HIDE DEF cells
  <2> QED BY <2>1, <2>2, <2>5 DEF CellsForPresent
<1> QED BY <1>5, <1>6, <1>7

-----------------------------------------------------------------------------
(* Hilbert curves. *)

IsNear(x, y, z, w) ==
  \/ x = z /\ (y = w + 1 \/ w = y + 1)
  \/ y = w /\ (x = z + 1 \/ z = x + 1)

(* f numbers the points of a square along a curve from its south-west to   *)
(* its south-east corner.                                                  *)
IsCurve(f, N) ==
  /\ f \in [0..(N - 1) -> [0..(N - 1) -> 0..(N * N - 1)]]
  /\ \A v \in 0..(N * N - 1) : \E x, y \in 0..(N - 1) : f[x][y] = v
  /\ \A x, y \in 0..(N - 1) : f[x][y] = 0 => x = 0 /\ y = 0
  /\ \A x, y \in 0..(N - 1) : f[x][y] = N * N - 1 => x = N - 1 /\ y = 0
  /\ \A x, y, z, w \in 0..(N - 1) : f[z][w] = f[x][y] + 1 => IsNear(x, y, z, w)

(* The quarter of a point along the curve, and the point as its quarter    *)
(* sees it.                                                                *)
Quarter(rx, ry) == IF rx = 0 THEN ry ELSE 3 - ry
TurnX(N, rx, ry, a, b) == IF ry = 1 THEN a ELSE IF rx = 1 THEN N - 1 - b ELSE b
TurnY(N, rx, ry, a, b) == IF ry = 1 THEN b ELSE IF rx = 1 THEN N - 1 - a ELSE a

Twice(f, N) ==
  [x \in 0..(2 * N - 1) |-> [y \in 0..(2 * N - 1) |->
     N * N * Quarter(x \div N, y \div N)
       + f[TurnX(N, x \div N, y \div N, x % N, y % N)][TurnY(N, x \div N, y \div N, x % N, y % N)]]]

LEMMA HalfDef ==
  ASSUME NEW N \in Nat, N > 0
  PROVE  /\ \A x \in 0..(2 * N - 1) :
              /\ x \div N \in 0..1 /\ x % N \in 0..(N - 1)
              /\ x \div N = 0 => x = x % N
              /\ x \div N = 1 => x = (x % N) + N
         /\ \A a \in 0..(N - 1) :
              /\ a \in 0..(2 * N - 1) /\ a \div N = 0 /\ a % N = a
              /\ a + N \in 0..(2 * N - 1) /\ (a + N) \div N = 1 /\ (a + N) % N = a
<1>1. ASSUME NEW x \in 0..(2 * N - 1)
      PROVE  /\ x \div N \in 0..1 /\ x % N \in 0..(N - 1)
             /\ x \div N = 0 => x = x % N
             /\ x \div N = 1 => x = (x % N) + N
  <2> DEFINE q == x \div N
             m == x % N
  <2>1. q \in Int /\ m \in 0..(N - 1) /\ x = N * q + m
    OBVIOUS
  <2> HIDE DEF q, m
  <2>2. q < 2
    <3> SUFFICES ASSUME q >= 2 PROVE FALSE
      BY <2>1
    <3>1. N * q >= N * 2
      BY <2>1
    <3> QED BY <2>1, <3>1
  <2>3. q >= 0
    <3> SUFFICES ASSUME q <= 0 - 1 PROVE FALSE
      BY <2>1
    <3>1. N * q <= N * (0 - 1)
      BY <2>1
    <3> QED BY <2>1, <3>1
  <2>4. (q = 0 => x = m) /\ (q = 1 => x = m + N)
    BY <2>1
  <2>5. q \in 0..1 /\ m \in 0..(N - 1)
    BY <2>1, <2>2, <2>3
  <2> QED BY <2>4, <2>5 DEF q, m
<1>2. ASSUME NEW a \in 0..(N - 1)
      PROVE  /\ a \in 0..(2 * N - 1) /\ a \div N = 0 /\ a % N = a
             /\ a + N \in 0..(2 * N - 1) /\ (a + N) \div N = 1 /\ (a + N) % N = a
  OBVIOUS
<1> QED BY <1>1, <1>2

LEMMA TurnType ==
  ASSUME NEW N \in Nat, N > 0, NEW rx \in 0..1, NEW ry \in 0..1, NEW a \in 0..(N - 1), NEW b \in 0..(N - 1)
  PROVE  /\ TurnX(N, rx, ry, a, b) \in 0..(N - 1) /\ TurnY(N, rx, ry, a, b) \in 0..(N - 1)
         /\ Quarter(rx, ry) \in 0..3
BY DEF TurnX, TurnY, Quarter

(* Numbers in base M. *)
LEMMA QuarterNumbers ==
  ASSUME NEW M \in Nat, M > 0, NEW q \in 0..3, NEW u \in 0..(M - 1), NEW s \in 0..3, NEW v \in 0..(M - 1)
  PROVE  /\ M * q + u \in 0..(4 * M - 1)
         /\ M * q + u = 0 => q = 0 /\ u = 0
         /\ M * q + u = 4 * M - 1 => q = 3 /\ u = M - 1
         /\ M * s + v = (M * q + u) + 1 => \/ s = q /\ v = u + 1
                                           \/ s = q + 1 /\ u = M - 1 /\ v = 0
<1>1. /\ q = 0 \/ q = 1 \/ q = 2 \/ q = 3
      /\ s = 0 \/ s = 1 \/ s = 2 \/ s = 3
  OBVIOUS
<1>2. M * 0 = 0 /\ M * 1 = M /\ M * 2 = M + M /\ M * 3 = M + M + M
  OBVIOUS
<1>3. CASE q = 0
  BY <1>1, <1>2, <1>3
<1>4. CASE q = 1
  BY <1>1, <1>2, <1>4
<1>5. CASE q = 2
  BY <1>1, <1>2, <1>5
<1>6. CASE q = 3
  BY <1>1, <1>2, <1>6
<1> QED BY <1>1, <1>3, <1>4, <1>5, <1>6

(* A point of the square of twice the side: its quarter and its place in   *)
(* it.                                                                     *)
IsSeen(f, N, x, y, rx, ry, a, b, u) ==
  /\ rx = x \div N /\ ry = y \div N /\ a = x % N /\ b = y % N
  /\ rx \in 0..1 /\ ry \in 0..1 /\ a \in 0..(N - 1) /\ b \in 0..(N - 1)
  /\ x = (IF rx = 1 THEN a + N ELSE a) /\ y = (IF ry = 1 THEN b + N ELSE b)
  /\ u = f[TurnX(N, rx, ry, a, b)][TurnY(N, rx, ry, a, b)]
  /\ u \in 0..(N * N - 1) /\ Quarter(rx, ry) \in 0..3
  /\ Twice(f, N)[x][y] = N * N * Quarter(rx, ry) + u

LEMMA SeenDef ==
  ASSUME NEW N \in Nat, N > 0, NEW f, IsCurve(f, N), NEW x \in 0..(2 * N - 1), NEW y \in 0..(2 * N - 1)
  PROVE  \E rx, ry, a, b, u : IsSeen(f, N, x, y, rx, ry, a, b, u)
<1> DEFINE rx == x \div N
           ry == y \div N
           a == x % N
           b == y % N
           u == f[TurnX(N, rx, ry, a, b)][TurnY(N, rx, ry, a, b)]
<1>1. Twice(f, N)[x][y] = N * N * Quarter(rx, ry) + u
  BY DEF Twice
<1>2. /\ rx \in 0..1 /\ ry \in 0..1 /\ a \in 0..(N - 1) /\ b \in 0..(N - 1)
      /\ x = (IF rx = 1 THEN a + N ELSE a) /\ y = (IF ry = 1 THEN b + N ELSE b)
  <2>1. /\ rx \in 0..1 /\ ry \in 0..1 /\ a \in 0..(N - 1) /\ b \in 0..(N - 1)
        /\ (rx = 0 => x = a) /\ (rx = 1 => x = a + N) /\ (ry = 0 => y = b) /\ (ry = 1 => y = b + N)
    BY HalfDef
  <2> HIDE DEF rx, ry, a, b
  <2> QED BY <2>1
<1> HIDE DEF rx, ry, a, b
<1>3. TurnX(N, rx, ry, a, b) \in 0..(N - 1) /\ TurnY(N, rx, ry, a, b) \in 0..(N - 1) /\ Quarter(rx, ry) \in 0..3
  BY <1>2, TurnType
<1>4. u \in 0..(N * N - 1)
  <2> DEFINE R == 0..(N - 1)
             V == 0..(N * N - 1)
             c == TurnX(N, rx, ry, a, b)
             d == TurnY(N, rx, ry, a, b)
  <2>1. f \in [R -> [R -> V]] /\ c \in R /\ d \in R
    BY <1>3 DEF IsCurve
  <2> HIDE DEF R, V, c, d
  <2>2. f[c][d] \in V
    BY <2>1
  <2> QED BY <2>2 DEF V, c, d
<1> HIDE DEF u
<1>5. IsSeen(f, N, x, y, rx, ry, a, b, u)
  BY <1>1, <1>2, <1>3, <1>4 DEF IsSeen, rx, ry, a, b, u
<1> QED BY <1>5

LEMMA SquareOfTwice ==
  ASSUME NEW N \in Nat, N > 0
  PROVE  N * N \in Nat /\ N * N > 0 /\ (2 * N) * (2 * N) = 4 * (N * N)
OBVIOUS

(* Points of one quarter are near when they are near as it sees them. *)
LEMMA TurnKeepsNear ==
  ASSUME NEW N \in Nat, N > 0, NEW rx \in 0..1, NEW ry \in 0..1,
         NEW a \in 0..(N - 1), NEW b \in 0..(N - 1), NEW c \in 0..(N - 1), NEW d \in 0..(N - 1),
         IsNear(TurnX(N, rx, ry, a, b), TurnY(N, rx, ry, a, b), TurnX(N, rx, ry, c, d), TurnY(N, rx, ry, c, d))
  PROVE  IsNear(a, b, c, d)
<1>1. CASE ry = 1
  BY <1>1 DEF IsNear, TurnX, TurnY
<1>2. CASE ry # 1 /\ rx = 1
  BY <1>2 DEF IsNear, TurnX, TurnY
<1>3. CASE ry # 1 /\ rx # 1
  BY <1>3 DEF IsNear, TurnX, TurnY
<1> QED BY <1>1, <1>2, <1>3

LEMMA QuarterTells ==
  ASSUME NEW rx \in 0..1, NEW ry \in 0..1
  PROVE  /\ Quarter(rx, ry) = 0 => rx = 0 /\ ry = 0
         /\ Quarter(rx, ry) = 1 => rx = 0 /\ ry = 1
         /\ Quarter(rx, ry) = 2 => rx = 1 /\ ry = 1
         /\ Quarter(rx, ry) = 3 => rx = 1 /\ ry = 0
BY DEF Quarter

(* The first and the last point of each quarter. *)
LEMMA QuarterEnds ==
  ASSUME NEW N \in Nat, N > 0, NEW f, IsCurve(f, N), NEW rx \in 0..1, NEW ry \in 0..1,
         NEW a \in 0..(N - 1), NEW b \in 0..(N - 1)
  PROVE  LET u == f[TurnX(N, rx, ry, a, b)][TurnY(N, rx, ry, a, b)] IN
         /\ u = 0 => IF ry = 0 /\ rx = 1 THEN a = N - 1 /\ b = N - 1 ELSE a = 0 /\ b = 0
         /\ u = N * N - 1 => IF ry = 0 /\ rx = 0 THEN a = 0 /\ b = N - 1 ELSE a = N - 1 /\ b = 0
<1> DEFINE c == TurnX(N, rx, ry, a, b)
           d == TurnY(N, rx, ry, a, b)
<1>1. c \in 0..(N - 1) /\ d \in 0..(N - 1)
  BY TurnType
<1>2. (f[c][d] = 0 => c = 0 /\ d = 0) /\ (f[c][d] = N * N - 1 => c = N - 1 /\ d = 0)
  BY <1>1 DEF IsCurve
<1>3. c = 0 /\ d = 0 => IF ry = 0 /\ rx = 1 THEN a = N - 1 /\ b = N - 1 ELSE a = 0 /\ b = 0
  BY DEF TurnX, TurnY
<1>4. c = N - 1 /\ d = 0 => IF ry = 0 /\ rx = 0 THEN a = 0 /\ b = N - 1 ELSE a = N - 1 /\ b = 0
  BY DEF TurnX, TurnY
<1> HIDE DEF c, d
<1>5. /\ f[c][d] = 0 => IF ry = 0 /\ rx = 1 THEN a = N - 1 /\ b = N - 1 ELSE a = 0 /\ b = 0
      /\ f[c][d] = N * N - 1 => IF ry = 0 /\ rx = 0 THEN a = 0 /\ b = N - 1 ELSE a = N - 1 /\ b = 0
  BY <1>2, <1>3, <1>4
<1> QED BY <1>5 DEF c, d

(* Four quarters, the first transposed and the last transposed along the   *)
(* other diagonal, make one curve.                                         *)
LEMMA TwiceIsCurve ==
  ASSUME NEW N \in Nat, N > 0, NEW f, IsCurve(f, N)
  PROVE  IsCurve(Twice(f, N), 2 * N)
<1> DEFINE g == Twice(f, N)
           M == N * N
           R == 0..(2 * N - 1)
<1>0. M \in Nat /\ M > 0 /\ (2 * N) * (2 * N) = 4 * M
  BY SquareOfTwice
<1>1. \A x, y \in R : \E rx, ry, a, b, u : IsSeen(f, N, x, y, rx, ry, a, b, u)
  BY SeenDef
<1>2. ASSUME NEW x \in R, NEW y \in R PROVE g[x][y] \in 0..(4 * M - 1)
  <2>1. PICK rx, ry, a, b, u : IsSeen(f, N, x, y, rx, ry, a, b, u)
    BY <1>1
  <2>2. u \in 0..(M - 1) /\ Quarter(rx, ry) \in 0..3 /\ g[x][y] = M * Quarter(rx, ry) + u
    BY <2>1 DEF IsSeen
  <2> HIDE DEF M, g
  <2> QED BY <1>0, <2>2, QuarterNumbers
<1>3. g \in [R -> [R -> 0..(4 * M - 1)]]
  <2> DEFINE h(x, y) == N * N * Quarter(x \div N, y \div N)
       + f[TurnX(N, x \div N, y \div N, x % N, y % N)][TurnY(N, x \div N, y \div N, x % N, y % N)]
  <2>1. g = [x \in R |-> [y \in R |-> h(x, y)]]
    BY DEF Twice
  <2> HIDE DEF h
  <2>2. \A x, y \in R : g[x][y] = h(x, y)
    BY <2>1
  <2>3. \A x, y \in R : h(x, y) \in 0..(4 * M - 1)
    BY <1>2, <2>2
  <2> HIDE DEF g, R, M
  <2>4. \A x \in R : [y \in R |-> h(x, y)] \in [R -> 0..(4 * M - 1)]
    BY <2>3
  <2> QED BY <2>1, <2>4
<1>4. ASSUME NEW x \in R, NEW y \in R, g[x][y] = 0 PROVE x = 0 /\ y = 0
  <2>1. PICK rx, ry, a, b, u : IsSeen(f, N, x, y, rx, ry, a, b, u)
    BY <1>1
  <2>2. u \in 0..(M - 1) /\ Quarter(rx, ry) \in 0..3 /\ g[x][y] = M * Quarter(rx, ry) + u
    BY <2>1 DEF IsSeen
  <2>3. Quarter(rx, ry) = 0 /\ u = 0
    <3> HIDE DEF M, g
    <3> QED BY <1>0, <1>4, <2>2, QuarterNumbers
  <2>4. rx \in 0..1 /\ ry \in 0..1 /\ a \in 0..(N - 1) /\ b \in 0..(N - 1)
    BY <2>1 DEF IsSeen
  <2>5. rx = 0 /\ ry = 0
    BY <2>3, <2>4, QuarterTells
  <2>6. a = 0 /\ b = 0
    BY <2>1, <2>3, <2>4, <2>5, QuarterEnds DEF IsSeen
  <2> QED BY <2>1, <2>5, <2>6 DEF IsSeen
<1>5. ASSUME NEW x \in R, NEW y \in R, g[x][y] = 4 * M - 1 PROVE x = 2 * N - 1 /\ y = 0
  <2>1. PICK rx, ry, a, b, u : IsSeen(f, N, x, y, rx, ry, a, b, u)
    BY <1>1
  <2>2. u \in 0..(M - 1) /\ Quarter(rx, ry) \in 0..3 /\ g[x][y] = M * Quarter(rx, ry) + u
    BY <2>1 DEF IsSeen
  <2>3. Quarter(rx, ry) = 3 /\ u = M - 1
    <3> HIDE DEF M, g
    <3> QED BY <1>0, <1>5, <2>2, QuarterNumbers
  <2>4. rx \in 0..1 /\ ry \in 0..1 /\ a \in 0..(N - 1) /\ b \in 0..(N - 1)
    BY <2>1 DEF IsSeen
  <2>5. rx = 1 /\ ry = 0
    BY <2>3, <2>4, QuarterTells
  <2>6. a = N - 1 /\ b = 0
    BY <2>1, <2>3, <2>4, <2>5, QuarterEnds DEF IsSeen
  <2> QED BY <2>1, <2>5, <2>6 DEF IsSeen
<1>6. ASSUME NEW x \in R, NEW y \in R, NEW z \in R, NEW w \in R, g[z][w] = g[x][y] + 1
      PROVE  IsNear(x, y, z, w)
  <2>1. PICK rx, ry, a, b, u : IsSeen(f, N, x, y, rx, ry, a, b, u)
    BY <1>1
  <2>2. PICK sx, sy, c, d, v : IsSeen(f, N, z, w, sx, sy, c, d, v)
    BY <1>1
  <2>3. u \in 0..(M - 1) /\ Quarter(rx, ry) \in 0..3 /\ g[x][y] = M * Quarter(rx, ry) + u
    BY <2>1 DEF IsSeen
  <2>4. v \in 0..(M - 1) /\ Quarter(sx, sy) \in 0..3 /\ g[z][w] = M * Quarter(sx, sy) + v
    BY <2>2 DEF IsSeen
  <2>5. \/ Quarter(sx, sy) = Quarter(rx, ry) /\ v = u + 1
        \/ Quarter(sx, sy) = Quarter(rx, ry) + 1 /\ u = M - 1 /\ v = 0
    <3> HIDE DEF M, g
    <3>1. M * Quarter(sx, sy) + v = (M * Quarter(rx, ry) + u) + 1
      BY <1>6, <2>3, <2>4
    <3> QED BY <1>0, <2>3, <2>4, <3>1, QuarterNumbers
  <2>6. /\ rx \in 0..1 /\ ry \in 0..1 /\ a \in 0..(N - 1) /\ b \in 0..(N - 1)
        /\ sx \in 0..1 /\ sy \in 0..1 /\ c \in 0..(N - 1) /\ d \in 0..(N - 1)
        /\ u = f[TurnX(N, rx, ry, a, b)][TurnY(N, rx, ry, a, b)]
        /\ v = f[TurnX(N, sx, sy, c, d)][TurnY(N, sx, sy, c, d)]
        /\ x = (IF rx = 1 THEN a + N ELSE a) /\ y = (IF ry = 1 THEN b + N ELSE b)
        /\ z = (IF sx = 1 THEN c + N ELSE c) /\ w = (IF sy = 1 THEN d + N ELSE d)
    BY <2>1, <2>2 DEF IsSeen
  <2>7. CASE Quarter(sx, sy) = Quarter(rx, ry) /\ v = u + 1
    <3>1. sx = rx /\ sy = ry
      BY <2>6, <2>7 DEF Quarter
    <3>2. /\ TurnX(N, rx, ry, a, b) \in 0..(N - 1) /\ TurnY(N, rx, ry, a, b) \in 0..(N - 1)
          /\ TurnX(N, rx, ry, c, d) \in 0..(N - 1) /\ TurnY(N, rx, ry, c, d) \in 0..(N - 1)
      BY <2>6, TurnType
    <3>3. IsNear(TurnX(N, rx, ry, a, b), TurnY(N, rx, ry, a, b), TurnX(N, rx, ry, c, d), TurnY(N, rx, ry, c, d))
      BY <2>6, <2>7, <3>1, <3>2 DEF IsCurve
    <3>4. IsNear(a, b, c, d)
      BY <2>6, <3>3, TurnKeepsNear
    <3> QED BY <2>6, <3>1, <3>4 DEF IsNear
  <2>8. CASE Quarter(sx, sy) = Quarter(rx, ry) + 1 /\ u = M - 1 /\ v = 0
    <3>1. /\ IF ry = 0 /\ rx = 0 THEN a = 0 /\ b = N - 1 ELSE a = N - 1 /\ b = 0
          /\ IF sy = 0 /\ sx = 1 THEN c = N - 1 /\ d = N - 1 ELSE c = 0 /\ d = 0
      <4>1. f[TurnX(N, rx, ry, a, b)][TurnY(N, rx, ry, a, b)] = N * N - 1
        BY <2>6, <2>8
      <4>2. f[TurnX(N, sx, sy, c, d)][TurnY(N, sx, sy, c, d)] = 0
        BY <2>6, <2>8
      <4>3. IF ry = 0 /\ rx = 0 THEN a = 0 /\ b = N - 1 ELSE a = N - 1 /\ b = 0
        BY <2>6, <4>1, QuarterEnds
      <4>4. IF sy = 0 /\ sx = 1 THEN c = N - 1 /\ d = N - 1 ELSE c = 0 /\ d = 0
        BY <2>6, <4>2, QuarterEnds
      <4> QED BY <4>3, <4>4
    <3>2. \/ rx = 0 /\ ry = 0 /\ sx = 0 /\ sy = 1
          \/ rx = 0 /\ ry = 1 /\ sx = 1 /\ sy = 1
          \/ rx = 1 /\ ry = 1 /\ sx = 1 /\ sy = 0
      BY <2>6, <2>8 DEF Quarter
    <3> QED BY <2>6, <3>1, <3>2 DEF IsNear
  <2> QED BY <2>5, <2>7, <2>8
<1>7. ASSUME NEW v \in 0..(4 * M - 1) PROVE \E x, y \in R : g[x][y] = v
  <2>1. PICK q \in 0..3, u \in 0..(M - 1) : v = M * q + u
    <3> HIDE DEF M
    <3>1. v \div M \in 0..3 /\ v % M \in 0..(M - 1) /\ v = M * (v \div M) + (v % M)
      BY <1>0
    <3> QED BY <3>1
  <2>2. PICK c \in 0..(N - 1), d \in 0..(N - 1) : f[c][d] = u
    BY <2>1 DEF IsCurve
  <2> DEFINE rx == IF q \in {2, 3} THEN 1 ELSE 0
             ry == IF q \in {1, 2} THEN 1 ELSE 0
             a == TurnX(N, rx, ry, c, d)
             b == TurnY(N, rx, ry, c, d)
             x == IF rx = 1 THEN a + N ELSE a
             y == IF ry = 1 THEN b + N ELSE b
  <2>3. rx \in 0..1 /\ ry \in 0..1 /\ Quarter(rx, ry) = q
    BY DEF Quarter
  <2> HIDE DEF rx, ry
  <2>4. a \in 0..(N - 1) /\ b \in 0..(N - 1)
    BY <2>3, TurnType
  <2>5. TurnX(N, rx, ry, a, b) = c /\ TurnY(N, rx, ry, a, b) = d
    BY <2>3 DEF TurnX, TurnY
  <2> HIDE DEF a, b
  <2>6. x \in R /\ y \in R /\ x \div N = rx /\ y \div N = ry /\ x % N = a /\ y % N = b
    BY <2>3, <2>4, HalfDef
  <2> HIDE DEF x, y
  <2>7. g[x][y] = M * q + u
    BY <2>2, <2>3, <2>5, <2>6 DEF Twice
  <2> QED BY <2>1, <2>6, <2>7
<1> HIDE DEF g
<1> QED BY <1>0, <1>3, <1>4, <1>5, <1>6, <1>7 DEF IsCurve, g

-----------------------------------------------------------------------------
(* The loop of hilbert_xy2d follows the curve. *)

HilbertStep(n, k, b) ==
  LET rx == (b.p[1] \div Pow2[k]) % 2
      ry == (b.p[2] \div Pow2[k]) % 2
  IN [d |-> b.d + Pow2[2 * k] * Quarter(rx, ry), p |-> Rotate(n, rx, ry, b.p)]

IsLoop(st, order, x, y) ==
  /\ st[order] = [d |-> 0, p |-> <<x, y>>]
  /\ \A k \in 0..(order - 1) : st[k] = HilbertStep(Pow2[order], k, st[k + 1])

IsPasses(e, order, x, y, j) ==
  /\ e = [i \in 0..j |-> e[i]]
  /\ e[0] = [d |-> 0, p |-> <<x, y>>]
  /\ \A i \in 1..j : e[i] = HilbertStep(Pow2[order], order - i, e[i - 1])

LEMMA PassesExist ==
  ASSUME NEW order \in Nat, NEW x, NEW y
  PROVE  \E e : IsPasses(e, order, x, y, order)
<1> DEFINE S == {j \in Nat : \E e : IsPasses(e, order, x, y, j)}
<1>1. 0 \in S
  <2> DEFINE e == [i \in 0..0 |-> [d |-> 0, p |-> <<x, y>>]]
  <2>1. IsPasses(e, order, x, y, 0)
    BY DEF IsPasses
  <2> QED BY <2>1
<1>2. ASSUME NEW j \in Nat, j \in S PROVE j + 1 \in S
  <2>1. PICK f : IsPasses(f, order, x, y, j)
    BY <1>2
  <2> DEFINE e == [i \in 0..(j + 1) |-> IF i = j + 1 THEN HilbertStep(Pow2[order], order - i, f[j]) ELSE f[i]]
  <2>2. e = [i \in 0..(j + 1) |-> e[i]]
    OBVIOUS
  <2>3. e[0] = [d |-> 0, p |-> <<x, y>>]
    <3>1. e[0] = f[0]
      OBVIOUS
    <3> HIDE DEF e
    <3> QED BY <2>1, <3>1 DEF IsPasses
  <2>4. ASSUME NEW i \in 1..(j + 1) PROVE e[i] = HilbertStep(Pow2[order], order - i, e[i - 1])
    <3>1. CASE i = j + 1
      <4>1. e[i] = HilbertStep(Pow2[order], order - i, f[j]) /\ e[i - 1] = f[j]
        BY <3>1
      <4> QED BY <4>1
    <3>2. CASE i # j + 1
      <4>1. i \in 1..j /\ e[i] = f[i] /\ e[i - 1] = f[i - 1]
        BY <3>2
      <4> HIDE DEF e
      <4> QED BY <2>1, <4>1 DEF IsPasses
    <3> QED BY <3>1, <3>2
  <2> HIDE DEF e
  <2>5. IsPasses(e, order, x, y, j + 1)
    BY <2>2, <2>3, <2>4 DEF IsPasses
  <2> QED BY <2>5
<1>3. Nat \subseteq S
  <2> HIDE DEF S
  <2> QED BY <1>1, <1>2, SetInduction
<1> QED BY <1>3

LEMMA LoopDef ==
  ASSUME NEW order \in Nat, NEW x, NEW y
  PROVE  \E st : IsLoop(st, order, x, y) /\ HilbertXY2D(order, x, y) = st[0].d
<1> DEFINE G(f) == [k \in 0..order |-> IF k = order THEN [d |-> 0, p |-> <<x, y>>]
                                       ELSE HilbertStep(Pow2[order], k, f[k + 1])]
           st == CHOOSE f : f = G(f)
<1>1. HilbertXY2D(order, x, y) = st[0].d
  BY DEF HilbertXY2D, HilbertStep, Quarter
<1>2. PICK e : IsPasses(e, order, x, y, order)
  BY PassesExist
<1> DEFINE h == [k \in 0..order |-> e[order - k]]
<1>3. ASSUME NEW k \in 0..order PROVE h[k] = G(h)[k]
  <2>1. CASE k = order
    <3>1. order - k = 0
      BY <2>1
    <3> QED BY <1>2, <2>1, <3>1 DEF IsPasses
  <2>2. CASE k # order
    <3>1. /\ k + 1 \in 0..order /\ order - k \in 1..order
          /\ order - (order - k) = k /\ (order - k) - 1 = order - (k + 1)
      BY <2>2
    <3>2. e[order - k] = HilbertStep(Pow2[order], k, e[order - (k + 1)])
      BY <1>2, <3>1 DEF IsPasses
    <3>3. h[k] = e[order - k] /\ h[k + 1] = e[order - (k + 1)]
      BY <3>1
    <3> HIDE DEF h
    <3> QED BY <2>2, <3>1, <3>2, <3>3
  <2> QED BY <2>1, <2>2
<1>4. h = G(h)
  BY <1>3
<1> HIDE DEF h
<1>5. st = G(st)
  <2> HIDE DEF G
  <2> QED BY <1>4
<1>6. \A k \in 0..order : st[k] = G(st)[k]
  <2> HIDE DEF G, st
  <2> QED BY <1>5
<1> HIDE DEF st
<1>7. IsLoop(st, order, x, y)
  <2>1. \A k \in 0..order : G(st)[k] = IF k = order THEN [d |-> 0, p |-> <<x, y>>]
                                       ELSE HilbertStep(Pow2[order], k, st[k + 1])
    OBVIOUS
  <2>2. st[order] = [d |-> 0, p |-> <<x, y>>]
    <3>1. order \in 0..order
      OBVIOUS
    <3> HIDE DEF G
    <3> QED BY <1>6, <2>1, <3>1
  <2>3. ASSUME NEW k \in 0..(order - 1) PROVE st[k] = HilbertStep(Pow2[order], k, st[k + 1])
    <3>1. k \in 0..order /\ k # order
      OBVIOUS
    <3> HIDE DEF G
    <3> QED BY <1>6, <2>1, <3>1
  <2> QED BY <2>2, <2>3 DEF IsLoop
<1> QED BY <1>1, <1>7

(* What a pass does to a point of the square. *)
LEMMA StepDef ==
  ASSUME NEW n \in Nat, NEW k \in Nat, NEW b, b.d \in Nat, b.p[1] \in 0..(n - 1), b.p[2] \in 0..(n - 1)
  PROVE  LET rx == (b.p[1] \div Pow2[k]) % 2
             ry == (b.p[2] \div Pow2[k]) % 2
             s == HilbertStep(n, k, b)
         IN /\ rx \in 0..1 /\ ry \in 0..1
            /\ s.d = b.d + Pow2[2 * k] * Quarter(rx, ry) /\ s.d \in Nat
            /\ s.p[1] = TurnX(n, rx, ry, b.p[1], b.p[2]) /\ s.p[2] = TurnY(n, rx, ry, b.p[1], b.p[2])
            /\ s.p[1] \in 0..(n - 1) /\ s.p[2] \in 0..(n - 1)
<1> DEFINE rx == (b.p[1] \div Pow2[k]) % 2
           ry == (b.p[2] \div Pow2[k]) % 2
           s == HilbertStep(n, k, b)
<1>1. s = [d |-> b.d + Pow2[2 * k] * Quarter(rx, ry), p |-> Rotate(n, rx, ry, b.p)]
  BY DEF HilbertStep
<1>2. rx \in 0..1 /\ ry \in 0..1
  <2>1. Pow2[k] \in Nat /\ Pow2[k] > 0
    BY Pow2Def
  <2>2. b.p[1] \div Pow2[k] \in Int /\ b.p[2] \div Pow2[k] \in Int
    BY <2>1
  <2> QED BY <2>2
<1> HIDE DEF rx, ry, s
<1>3. s.d = b.d + Pow2[2 * k] * Quarter(rx, ry) /\ s.p = Rotate(n, rx, ry, b.p)
  BY <1>1
<1>4. s.d \in Nat
  <2>1. Pow2[2 * k] \in Nat /\ Quarter(rx, ry) \in Nat
    BY <1>2, Pow4 DEF Quarter
  <2>2. Pow2[2 * k] * Quarter(rx, ry) \in Nat
    BY <2>1
  <2> QED BY <1>3, <2>2
<1>5. s.p[1] = TurnX(n, rx, ry, b.p[1], b.p[2]) /\ s.p[2] = TurnY(n, rx, ry, b.p[1], b.p[2])
  BY <1>3 DEF Rotate, TurnX, TurnY
<1>6. s.p[1] \in 0..(n - 1) /\ s.p[2] \in 0..(n - 1)
  BY <1>2, <1>5 DEF TurnX, TurnY
<1> QED BY <1>2, <1>3, <1>4, <1>5, <1>6 DEF rx, ry, s

LEMMA LoopType ==
  ASSUME NEW order \in Nat, NEW x \in 0..(Pow2[order] - 1), NEW y \in 0..(Pow2[order] - 1),
         NEW st, IsLoop(st, order, x, y), NEW k \in 0..order
  PROVE  st[k].d \in Nat /\ st[k].p[1] \in 0..(Pow2[order] - 1) /\ st[k].p[2] \in 0..(Pow2[order] - 1)
<1> DEFINE n == Pow2[order]
           Ok(b) == b.d \in Nat /\ b.p[1] \in 0..(n - 1) /\ b.p[2] \in 0..(n - 1)
           S == {j \in Nat : j <= order => Ok(st[order - j])}
<1>0. n \in Nat
  BY Pow2Def
<1>1. 0 \in S
  <2>1. order - 0 = order /\ st[order] = [d |-> 0, p |-> <<x, y>>]
    BY DEF IsLoop
  <2>2. st[order].d = 0 /\ st[order].p[1] = x /\ st[order].p[2] = y
    BY <2>1
  <2> QED BY <2>1, <2>2
<1>2. ASSUME NEW j \in Nat, j \in S PROVE j + 1 \in S
  <2> SUFFICES ASSUME j + 1 <= order PROVE Ok(st[order - (j + 1)])
    OBVIOUS
  <2> DEFINE i == order - (j + 1)
  <2>1. i \in 0..(order - 1) /\ i + 1 = order - j /\ i \in Nat
    OBVIOUS
  <2> HIDE DEF i
  <2>2. Ok(st[i + 1])
    BY <1>2, <2>1
  <2>3. st[i] = HilbertStep(n, i, st[i + 1])
    BY <2>1 DEF IsLoop
  <2> HIDE DEF n
  <2>4. Ok(HilbertStep(n, i, st[i + 1]))
    BY <1>0, <2>1, <2>2, StepDef
  <2> QED BY <2>3, <2>4 DEF i
<1>3. Nat \subseteq S
  <2> HIDE DEF S
  <2> QED BY <1>1, <1>2, SetInduction
<1>4. order - k \in Nat /\ order - k <= order /\ order - (order - k) = k
  OBVIOUS
<1>5. Ok(st[k])
  BY <1>3, <1>4
<1> QED BY <1>5

LEMMA RemainderIsOne ==
  ASSUME NEW N \in Nat, N > 0, NEW q \in Int, NEW m \in 0..(N - 1), NEW a \in Int, a = N * q + m
  PROVE  a \div N = q /\ a % N = m
<1> DEFINE s == a \div N
           t == a % N
<1>1. s \in Int /\ t \in 0..(N - 1) /\ a = N * s + t
  OBVIOUS
<1> HIDE DEF s, t
<1>2. ~(s < q)
  <2> SUFFICES ASSUME s + 1 <= q PROVE FALSE
    BY <1>1
  <2>1. N * (s + 1) <= N * q
    BY <1>1
  <2>2. N * (s + 1) = N * s + N /\ N * s \in Int /\ N * q \in Int
    BY <1>1
  <2> QED BY <1>1, <2>1, <2>2
<1>3. ~(q < s)
  <2> SUFFICES ASSUME q + 1 <= s PROVE FALSE
    BY <1>1
  <2>1. N * (q + 1) <= N * s
    BY <1>1
  <2>2. N * (q + 1) = N * q + N /\ N * s \in Int /\ N * q \in Int
    BY <1>1
  <2> QED BY <1>1, <2>1, <2>2
<1>4. s = q
  BY <1>1, <1>2, <1>3
<1>5. t = m
  <2>1. N * q \in Int
    OBVIOUS
  <2> QED BY <1>1, <1>4, <2>1
<1> QED BY <1>4, <1>5 DEF s, t

LEMMA Remainders ==
  ASSUME NEW N \in Nat, N > 0, NEW Q \in Nat, NEW a \in 0..((2 * N) * Q - 1)
  PROVE  /\ a % (2 * N) \in 0..(2 * N - 1) /\ a % N \in 0..(N - 1)
         /\ (a % (2 * N)) \div N = (a \div N) % 2
         /\ (a % (2 * N)) % N = a % N
         /\ ((2 * N) * Q - 1 - a) % N = N - 1 - (a % N)
<1> DEFINE q == a \div N
           m == a % N
           t == q % 2
           s == q \div 2
<1>1. q \in Int /\ m \in 0..(N - 1) /\ a = N * q + m
  OBVIOUS
<1> HIDE DEF q, m
<1>2. s \in Int /\ t \in 0..1 /\ q = 2 * s + t
  BY <1>1
<1> HIDE DEF s, t
<1>3. N * q = (2 * N) * s + N * t /\ N * t \in Int /\ (2 * N) * s \in Int /\ (N * t = 0 \/ N * t = N)
  <2>1. N * (2 * s + t) = (2 * N) * s + N * t
    BY <1>2
  <2>2. t = 0 \/ t = 1
    BY <1>2
  <2> QED BY <1>2, <2>1, <2>2
<1>4. N * t + m \in 0..(2 * N - 1) /\ a = (2 * N) * s + (N * t + m)
  BY <1>1, <1>3
<1>5. 2 * N \in Nat /\ 2 * N > 0 /\ a \in Int
  BY <1>1
<1>6. a % (2 * N) = N * t + m
  <2> DEFINE N2 == 2 * N
             r == N * t + m
  <2>1. N2 \in Nat /\ N2 > 0 /\ r \in 0..(N2 - 1) /\ a = N2 * s + r
    BY <1>4, <1>5
  <2> HIDE DEF N2, r
  <2>2. a % N2 = r
    BY <1>2, <1>5, <2>1, RemainderIsOne
  <2> QED BY <2>2 DEF N2, r
<1>7. (N * t + m) \div N = t /\ (N * t + m) % N = m
  BY <1>1, <1>2, <1>4, RemainderIsOne
<1>8. ((2 * N) * Q - 1 - a) % N = N - 1 - m
  <2> DEFINE c == (2 * N) * Q - 1 - a
             z == 2 * Q - 1 - q
  <2>1. z \in Int /\ N - 1 - m \in 0..(N - 1) /\ c \in Int
    BY <1>1
  <2>2. N * z = (2 * N) * Q - N - N * q
    <3>1. N * (2 * Q - 1 - q) = N * (2 * Q) - N - N * q
      BY <1>1
    <3>2. N * (2 * Q) = (2 * N) * Q
      OBVIOUS
    <3> QED BY <3>1, <3>2
  <2>3. c = N * z + (N - 1 - m)
    <3>1. N * q \in Int /\ (2 * N) * Q \in Int
      BY <1>1
    <3> QED BY <1>1, <2>2, <3>1
  <2> HIDE DEF c, z
  <2>4. c % N = N - 1 - m
    BY <2>1, <2>3, RemainderIsOne
  <2> QED BY <2>4 DEF c
<1> QED BY <1>1, <1>4, <1>6, <1>7, <1>8 DEF q, m, t

(* f gives what the passes from m on add to the index of every point. *)
Follows(f, m) ==
  \A order \in Nat : m <= order =>
    \A x, y \in 0..(Pow2[order] - 1) : \A st : IsLoop(st, order, x, y) =>
      st[0].d = st[m].d + f[st[m].p[1] % Pow2[m]][st[m].p[2] % Pow2[m]]

LEMMA PowSquare ==
  ASSUME NEW m \in Nat
  PROVE  Pow2[2 * m] = Pow2[m] * Pow2[m]
<1>1. 2 * m = m + m
  OBVIOUS
<1> QED BY <1>1, Pow2Adds

LEMMA LoopFollows ==
  ASSUME NEW m \in Nat
  PROVE  \E f : IsCurve(f, Pow2[m]) /\ Follows(f, m)
<1> DEFINE S == {j \in Nat : \E f : IsCurve(f, Pow2[j]) /\ Follows(f, j)}
<1>1. 0 \in S
  <2> DEFINE f == [x \in 0..0 |-> [y \in 0..0 |-> 0]]
  <2>0. Pow2[0] = 1 /\ 1 - 1 = 0 /\ 1 * 1 - 1 = 0
    BY Pow2Def
  <2>1. IsCurve(f, 1)
    BY DEF IsCurve, IsNear
  <2>2. f[0][0] = 0
    OBVIOUS
  <2> HIDE DEF f
  <2>3. Follows(f, 0)
    <3> SUFFICES ASSUME NEW order \in Nat, NEW x \in 0..(Pow2[order] - 1), NEW y \in 0..(Pow2[order] - 1),
                        NEW st, IsLoop(st, order, x, y)
                 PROVE  st[0].d = st[0].d + f[st[0].p[1] % Pow2[0]][st[0].p[2] % Pow2[0]]
      BY DEF Follows
    <3>1. st[0].d \in Nat /\ st[0].p[1] \in 0..(Pow2[order] - 1) /\ st[0].p[2] \in 0..(Pow2[order] - 1)
      BY LoopType
    <3>2. \A a \in Int : a % 1 = 0
      OBVIOUS
    <3>3. st[0].p[1] % Pow2[0] = 0 /\ st[0].p[2] % Pow2[0] = 0
      BY <2>0, <3>1, <3>2, Pow2Def
    <3> QED BY <2>2, <3>1, <3>3
  <2> QED BY <2>0, <2>1, <2>3
<1>2. ASSUME NEW j \in Nat, j \in S PROVE j + 1 \in S
  <2>1. PICK f : IsCurve(f, Pow2[j]) /\ Follows(f, j)
    BY <1>2
  <2> DEFINE N == Pow2[j]
             g == Twice(f, N)
  <2>2. N \in Nat /\ N > 0 /\ Pow2[j + 1] = 2 * N
    BY Pow2Def
  <2>3. IsCurve(g, Pow2[j + 1])
    <3>1. IsCurve(f, N)
      BY <2>1
    <3> HIDE DEF N
    <3> QED BY <2>2, <3>1, TwiceIsCurve
  <2>4. Follows(g, j + 1)
    <3> SUFFICES ASSUME NEW order \in Nat, j + 1 <= order,
                        NEW x \in 0..(Pow2[order] - 1), NEW y \in 0..(Pow2[order] - 1),
                        NEW st, IsLoop(st, order, x, y)
                 PROVE  st[0].d = st[j + 1].d + g[st[j + 1].p[1] % Pow2[j + 1]][st[j + 1].p[2] % Pow2[j + 1]]
      BY DEF Follows
    <3> DEFINE n == Pow2[order]
               a == st[j + 1].p[1]
               b == st[j + 1].p[2]
               rx == (a \div N) % 2
               ry == (b \div N) % 2
               Q == Pow2[order - (j + 1)]
    <3>1. j \in 0..(order - 1) /\ j <= order /\ j + 1 \in 0..order /\ order - (j + 1) \in Nat
          /\ (j + 1) + (order - (j + 1)) = order
      OBVIOUS
    <3>2. n = (2 * N) * Q /\ Q \in Nat /\ n \in Nat
      <4>1. Pow2[(j + 1) + (order - (j + 1))] = Pow2[j + 1] * Q
        BY <3>1, Pow2Adds
      <4> QED BY <2>2, <3>1, <4>1, Pow2Def
    <3>3. st[j + 1].d \in Nat /\ a \in 0..(n - 1) /\ b \in 0..(n - 1)
      BY <3>1, LoopType
    <3>4. st[j] = HilbertStep(n, j, st[j + 1])
      BY <3>1 DEF IsLoop
    <3>5. /\ rx \in 0..1 /\ ry \in 0..1
          /\ st[j].d = st[j + 1].d + Pow2[2 * j] * Quarter(rx, ry)
          /\ st[j].p[1] = TurnX(n, rx, ry, a, b) /\ st[j].p[2] = TurnY(n, rx, ry, a, b)
      BY <3>2, <3>3, <3>4, StepDef
    <3>6. st[0].d = st[j].d + f[st[j].p[1] % N][st[j].p[2] % N]
      BY <2>1, <3>1 DEF Follows
    <3>7. Pow2[2 * j] = N * N
      BY PowSquare
    <3> DEFINE u == a % (2 * N)
               v == b % (2 * N)
               c == TurnX(N, rx, ry, a % N, b % N)
               d == TurnY(N, rx, ry, a % N, b % N)
    <3> HIDE DEF N, n, Q, a, b
    <3>8. /\ u \in 0..(2 * N - 1) /\ u \div N = rx /\ u % N = a % N
          /\ v \in 0..(2 * N - 1) /\ v \div N = ry /\ v % N = b % N
          /\ a % N \in 0..(N - 1) /\ b % N \in 0..(N - 1)
      <4>1. a \in 0..((2 * N) * Q - 1) /\ b \in 0..((2 * N) * Q - 1)
        BY <3>2, <3>3
      <4>2. a % (2 * N) \in 0..(2 * N - 1) /\ (a % (2 * N)) \div N = (a \div N) % 2 /\ (a % (2 * N)) % N = a % N
        BY <2>2, <3>2, <4>1, Remainders
      <4>3. b % (2 * N) \in 0..(2 * N - 1) /\ (b % (2 * N)) \div N = (b \div N) % 2 /\ (b % (2 * N)) % N = b % N
        BY <2>2, <3>2, <4>1, Remainders
      <4>4. a % N \in 0..(N - 1) /\ b % N \in 0..(N - 1)
        BY <2>2, <3>2, <4>1, Remainders
      <4> QED BY <4>2, <4>3, <4>4
    <3> HIDE DEF u, v, rx, ry
    <3>9. st[j].p[1] % N = c /\ st[j].p[2] % N = d
      <4>1. /\ TurnX(n, rx, ry, a, b) % N = TurnX(N, rx, ry, a % N, b % N)
            /\ TurnY(n, rx, ry, a, b) % N = TurnY(N, rx, ry, a % N, b % N)
        <5>1. (n - 1 - a) % N = N - 1 - (a % N) /\ (n - 1 - b) % N = N - 1 - (b % N)
          <6>1. a \in 0..((2 * N) * Q - 1) /\ b \in 0..((2 * N) * Q - 1)
            BY <3>2, <3>3
          <6>2. /\ ((2 * N) * Q - 1 - a) % N = N - 1 - (a % N)
                /\ ((2 * N) * Q - 1 - b) % N = N - 1 - (b % N)
            BY <2>2, <3>2, <6>1, Remainders
          <6> QED BY <3>2, <6>2
        <5> QED BY <3>5, <5>1 DEF TurnX, TurnY
      <4> QED BY <3>5, <4>1
    <3>10. g[u][v] = N * N * Quarter(rx, ry) + f[c][d]
      BY <3>8 DEF Twice
    <3>11. c \in 0..(N - 1) /\ d \in 0..(N - 1) /\ Quarter(rx, ry) \in 0..3
      BY <2>2, <3>5, <3>8, TurnType
    <3>12. f[c][d] \in Nat
      <4> DEFINE R == 0..(N - 1)
                 V == 0..(N * N - 1)
      <4>1. f \in [R -> [R -> V]] /\ c \in R /\ d \in R /\ V \subseteq Nat
        <5>1. IsCurve(f, N)
          BY <2>1 DEF N
        <5>2. f \in [R -> [R -> V]]
          BY <5>1 DEF IsCurve
        <5>3. V \subseteq Nat
          OBVIOUS
        <5> QED BY <3>11, <5>2, <5>3
      <4> HIDE DEF R, V, c, d
      <4>2. f[c][d] \in V
        BY <4>1
      <4> QED BY <4>1, <4>2
    <3>13. N * N * Quarter(rx, ry) \in Nat
      BY <2>2, <3>11
    <3> HIDE DEF g, c, d
    <3>14. st[0].d = st[j + 1].d + g[u][v]
      <4>1. st[0].d = (st[j + 1].d + N * N * Quarter(rx, ry)) + f[c][d]
        BY <3>5, <3>6, <3>7, <3>9
      <4> QED BY <3>3, <3>10, <3>12, <3>13, <4>1
    <3> QED BY <2>2, <3>14 DEF u, v, a, b
  <2> QED BY <2>3, <2>4
<1>3. Nat \subseteq S
  <2> HIDE DEF S
  <2> QED BY <1>1, <1>2, SetInduction
<1> QED BY <1>3

(* For every order. *)
LEMMA HilbertHolds ==
  ASSUME NEW order \in Nat
  PROVE  HilbertIsACurve(order)
<1> DEFINE n == Pow2[order]
           R == 0..(n - 1)
           grid == R \X R
           index == [p \in grid |-> HilbertXY2D(order, p[1], p[2])]
           Far(i, j) == IF i < j THEN j - i ELSE i - j
<1>0. n \in Nat /\ n > 0
  BY Pow2Def
<1>1. PICK f : IsCurve(f, n) /\ Follows(f, order)
  BY LoopFollows
<1>2. ASSUME NEW x \in R, NEW y \in R PROVE HilbertXY2D(order, x, y) = f[x][y]
  <2>1. PICK st : IsLoop(st, order, x, y) /\ HilbertXY2D(order, x, y) = st[0].d
    BY LoopDef
  <2>2. st[0].d = st[order].d + f[st[order].p[1] % n][st[order].p[2] % n]
    BY <2>1, <1>1 DEF Follows
  <2>3. st[order].d = 0 /\ st[order].p[1] = x /\ st[order].p[2] = y
    BY <2>1 DEF IsLoop
  <2> HIDE DEF n
  <2>4. x % n = x /\ y % n = y
    BY <1>0
  <2>5. f[x][y] \in Int
    <3> DEFINE V == 0..(n * n - 1)
    <3>1. f \in [R -> [R -> V]]
      BY <1>1 DEF IsCurve
    <3> HIDE DEF R
    <3>2. f[x][y] \in V
      BY <3>1
    <3> QED BY <3>2
  <2> QED BY <2>1, <2>2, <2>3, <2>4, <2>5
<1>3. \A p \in grid : index[p] = f[p[1]][p[2]] /\ p[1] \in R /\ p[2] \in R /\ p = <<p[1], p[2]>>
  BY <1>2
<1>4. {index[p] : p \in grid} = 0..(n * n - 1)
  <2> DEFINE V == 0..(n * n - 1)
  <2>1. f \in [R -> [R -> V]] /\ \A v \in V : \E x, y \in R : f[x][y] = v
    BY <1>1 DEF IsCurve
  <2>2. \A x, y \in R : <<x, y>> \in grid /\ index[<<x, y>>] = f[x][y]
    BY <1>2
  <2> HIDE DEF R, V
  <2>3. \A x, y \in R : f[x][y] \in V
    BY <2>1
  <2> HIDE DEF index, grid
  <2>4. \A p \in grid : index[p] \in V
    BY <1>3, <2>3
  <2>5. ASSUME NEW v \in V PROVE \E p \in grid : index[p] = v
    <3>1. PICK x \in R, y \in R : f[x][y] = v
      BY <2>1
    <3>2. <<x, y>> \in grid /\ index[<<x, y>>] = v
      BY <2>2, <3>1
    <3> QED BY <3>2
  <2>6. {index[p] : p \in grid} = V
    BY <2>4, <2>5
  <2> QED BY <2>6 DEF V
<1>5. ASSUME NEW p \in grid, NEW q \in grid, index[q] = index[p] + 1
      PROVE  Far(p[1], q[1]) + Far(p[2], q[2]) = 1
  <2>1. f[q[1]][q[2]] = f[p[1]][p[2]] + 1 /\ p[1] \in R /\ p[2] \in R /\ q[1] \in R /\ q[2] \in R
    <3> HIDE DEF index, grid
    <3> QED BY <1>3, <1>5
  <2>2. IsNear(p[1], p[2], q[1], q[2])
    BY <1>1, <2>1 DEF IsCurve
  <2>3. p[1] \in Int /\ p[2] \in Int /\ q[1] \in Int /\ q[2] \in Int
    BY <2>1
  <2> HIDE DEF n, R, grid, index
  <2> QED BY <2>2, <2>3 DEF IsNear
<1> QED BY <1>4, <1>5 DEF HilbertIsACurve

-----------------------------------------------------------------------------
(* For any leaf size, depths and ancestor depths, any nodes and any way    *)
(* box: a bounding box query opens the cell file and the row group of the  *)
(* way and of each node, wherever a leaf covers the point it asks for, and *)
(* a cell that only a delta tier has wherever the way is.  A box lies in   *)
(* its cell whole, the codes of two cells are nested or apart, leaves do   *)
(* not nest, so the leaf that covers a point is the one found for it, and  *)
(* the cell of a box is that leaf or above it (containing_cells_v2_np,     *)
(* leaf_index_for_qk, _cells_for_present, prune_files_by_bbox).            *)
THEOREM ReadsAreFound == Spec => []ReadsFindRows
<1>1. JobInv => ReadsFindRows
  <2> SUFFICES ASSUME JobInv, At("placed")
               PROVE  CoveredIsRead(job.nodes, job.leaves, job.box) /\ DeltaOnlyIsRead(job.nodes, job.leaves, job.box)
    BY DEF ReadsFindRows
  <2>1. job.nodes \in LayoutInputs /\ job.leaves = SelectLeafCells(job.nodes)
    BY DEF JobInv
  <2>2. PICK p \in Corners, q \in Corners : job.box = Spanned(p, q)
    BY DEF JobInv
  <2>3. IsLeaves(job.nodes, job.leaves)
    BY <2>1, AlgorithmsAssumption DEF IsLeaves, IsNodes
  <2>4. IsBox(job.box)
    BY <2>2, AlgorithmsAssumption, SpannedIsBox
  <2> QED BY <2>3, <2>4, CoveredHolds, DeltaOnlyHolds
<1> QED BY <1>1, JobInvariant, PTL

(* The Hilbert index orders the grid as one curve of neighbouring points,  *)
(* by induction on the order (HilbertHolds, for every order): four curves, *)
(* the first and the last turned, make one of twice the side, and the loop *)
(* of hilbert_xy2d adds up the quarters from the greatest to the least,    *)
(* seeing of a point turned in the whole square only the low bits.         *)
THEOREM HilbertIsOneCurve == Spec => []HilbertKeysAreACurve
<1>1. JobInv => HilbertKeysAreACurve
  BY HilbertHolds DEF JobInv, HilbertKeysAreACurve
<1> QED BY <1>1, JobInvariant, PTL
=============================================================================
