----------------------------- MODULE HistoryProofs -----------------------------
(***************************************************************************)
(* For any elements, cells, runs and instants: what a run appended to the  *)
(* history stays in it through every fold and compaction (HistoryInv), and *)
(* the reads of AtticReads agree with each other and with the current      *)
(* state (AtticInv, NestInv).                                              *)
(***************************************************************************)
EXTENDS AtticReads, FiniteSetTheorems, FunctionTheorems, SequenceTheorems, TLAPS

-----------------------------------------------------------------------------
(* Facts about numbers and sequences. *)

(* A finite set of numbers has a greatest one: the least of its end        *)
(* segments, which are ordered by inclusion, belongs to it.                *)
LEMMA MaxOfFinite ==
  ASSUME NEW S \in SUBSET Int, IsFiniteSet(S), S # {}
  PROVE  MaxOf(S) \in S /\ \A k \in S : k <= MaxOf(S)
<1> DEFINE Above(m) == {k \in S : k >= m}
           T == {Above(m) : m \in S}
<1>1. T \subseteq FiniteSubsetsOf(S) /\ T # {}
  <2>1. ASSUME NEW m \in S PROVE Above(m) \in FiniteSubsetsOf(S)
    <3>1. Above(m) \in SUBSET S
      OBVIOUS
    <3>2. IsFiniteSet(Above(m))
      BY <3>1, FS_Subset
    <3> QED BY <3>1, <3>2 DEF FiniteSubsetsOf
  <2> QED BY <2>1
<1>2. IsWellFoundedOn(StrictSubsetOrdering(S), FiniteSubsetsOf(S))
  BY FS_StrictSubsetOrderingWellFounded
<1> HIDE DEF T
<1>3. PICK A \in T : \A B \in T : <<B, A>> \notin StrictSubsetOrdering(S)
  BY <1>1, <1>2, WFMin
<1>4. PICK m \in S : A = Above(m)
  BY <1>3 DEF T
<1>5. ASSUME NEW k \in S PROVE k <= m
  <2> SUFFICES ASSUME k > m PROVE FALSE
    OBVIOUS
  <2>1. Above(k) \in T
    BY DEF T
  <2>2. Above(k) \subseteq Above(m) /\ m \in Above(m) /\ m \notin Above(k)
    <3>1. S \subseteq Int /\ k \in Int /\ m \in Int
      OBVIOUS
    <3>2. (\A x \in S : x >= k => x >= m) /\ m >= m /\ ~(m >= k)
      BY <3>1
    <3> QED BY <3>2
  <2>3. <<Above(k), A>> \in (SUBSET S) \X (SUBSET S) /\ Above(k) # A /\ Above(k) \subseteq A
    BY <1>4, <2>2
  <2>4. <<Above(k), A>> \in StrictSubsetOrdering(S)
    BY <2>3 DEF StrictSubsetOrdering
  <2> QED BY <1>3, <2>1, <2>4
<1> QED BY <1>5 DEF MaxOf

(* So has a bounded set of naturals. *)
LEMMA MaxOfBounded ==
  ASSUME NEW S \in SUBSET Nat, S # {}, NEW n \in Nat, \A k \in S : k <= n
  PROVE  MaxOf(S) \in S /\ \A k \in S : k <= MaxOf(S)
<1>1. IsFiniteSet(S)
  BY FS_BoundedSetOfNaturals
<1> QED BY <1>1, MaxOfFinite

(* How often an entry occurs in a concatenation. *)
LEMMA CopiesFinite ==
  ASSUME NEW S, NEW s \in Seq(S), NEW k
  PROVE  IsFiniteSet({j \in DOMAIN s : s[j] = k}) /\ Copies(k, s) \in Nat
<1>1. IsFiniteSet(DOMAIN s)
  BY FS_Interval, LenProperties
<1>2. IsFiniteSet({j \in DOMAIN s : s[j] = k})
  BY <1>1, FS_Subset
<1> QED BY <1>2, FS_CardinalityType DEF Copies

LEMMA CopiesConcat ==
  ASSUME NEW S, NEW s \in Seq(S), NEW t \in Seq(S), NEW k
  PROVE  Copies(k, s \o t) = Copies(k, s) + Copies(k, t)
<1> DEFINE A == {j \in DOMAIN s : s[j] = k}
           B == {j \in DOMAIN t : t[j] = k}
           C == {j \in (Len(s) + 1)..(Len(s) + Len(t)) : t[j - Len(s)] = k}
           f == [j \in B |-> j + Len(s)]
<1>1. /\ Len(s) \in Nat /\ Len(t) \in Nat
      /\ DOMAIN s = 1..Len(s) /\ DOMAIN t = 1..Len(t)
      /\ DOMAIN (s \o t) = 1..(Len(s) + Len(t))
  BY LenProperties, ConcatProperties
<1>2. \A j \in 1..(Len(s) + Len(t)) :
        (s \o t)[j] = IF j <= Len(s) THEN s[j] ELSE t[j - Len(s)]
  BY ConcatProperties
<1>3. {j \in DOMAIN (s \o t) : (s \o t)[j] = k} = A \cup C
  BY <1>1, <1>2
<1>4. IsFiniteSet(A) /\ IsFiniteSet(B)
  BY CopiesFinite
<1>5. ExistsBijection(B, C)
  <2>1. f \in [B -> C]
    BY <1>1
  <2>2. \A x, y \in B : f[x] = f[y] => x = y
    BY <1>1
  <2>3. ASSUME NEW c \in C PROVE \E x \in B : f[x] = c
    <3>1. c - Len(s) \in B /\ (c - Len(s)) + Len(s) = c
      BY <1>1
    <3> QED BY <3>1
  <2> HIDE DEF f, B, C
  <2>4. f \in Bijection(B, C)
    BY <2>1, <2>2, <2>3, Fun_IsBij
  <2> QED BY <2>4 DEF ExistsBijection
<1>6. IsFiniteSet(C) /\ Cardinality(C) = Cardinality(B)
  BY <1>4, <1>5, FS_Bijection
<1>7. A \cap C = {}
  BY <1>1
<1> HIDE DEF A, B, C
<1>8. Cardinality(A \cup C) = Cardinality(A) + Cardinality(C)
  <2>1. Cardinality(A) \in Nat /\ Cardinality(C) \in Nat /\ Cardinality(A \cap C) = 0
    BY <1>4, <1>6, <1>7, FS_CardinalityType, FS_EmptySet
  <2>2. Cardinality(A \cup C) = Cardinality(A) + Cardinality(C) - Cardinality(A \cap C)
    BY <1>4, <1>6, FS_Union
  <2> QED BY <2>1, <2>2
<1> QED BY <1>3, <1>6, <1>8 DEF Copies, A, B

LEMMA CopiesSingle ==
  ASSUME NEW m, NEW k
  PROVE  Copies(k, <<m>>) = IF k = m THEN 1 ELSE 0
<1>1. CASE k = m
  <2>1. {j \in DOMAIN <<m>> : <<m>>[j] = k} = {1}
    BY <1>1
  <2> QED BY <1>1, <2>1, FS_Singleton DEF Copies
<1>2. CASE k # m
  <2>1. {j \in DOMAIN <<m>> : <<m>>[j] = k} = {}
    BY <1>2
  <2> QED BY <1>2, <2>1, FS_EmptySet DEF Copies
<1> QED BY <1>1, <1>2

LEMMA CopiesOutside ==
  ASSUME NEW S, NEW s \in Seq(S), NEW k, k \notin S
  PROVE  Copies(k, s) = 0
<1>1. {j \in DOMAIN s : s[j] = k} = {}
  BY LenProperties
<1> QED BY <1>1, FS_EmptySet DEF Copies

-----------------------------------------------------------------------------
(* Batches and the cells they resolve to. *)

(* An element's versions in a batch lie after the last run, in order.      *)
LEMMA VersionRecord ==
  ASSUME NEW x, NEW f, NEW v \in Versions(x, f)
  PROVE  /\ v.from = f /\ v.live \in BOOLEAN /\ v.cell \in Places
         /\ v = [from |-> v.from, live |-> v.live, cell |-> v.cell]
<1>1. CASE v \in {[from |-> f, live |-> TRUE, cell |-> c] : c \in IF x \in Nodes THEN Cells ELSE {Root}}
  <2>1. PICK c \in Places : v = [from |-> f, live |-> TRUE, cell |-> c]
    BY <1>1 DEF Places
  <2> QED BY <2>1
<1>2. CASE v = [from |-> f, live |-> FALSE, cell |-> Root]
  BY <1>2 DEF Places
<1> QED BY <1>1, <1>2 DEF Versions

(* The versions of one element in a batch. *)
IsHistoryOf(o, t) ==
  /\ Len(o) \in {1, 2} /\ DOMAIN o = 1..Len(o)
  /\ \A j \in DOMAIN o :
       o[j].from \in (now + 1)..t /\ o[j].live \in BOOLEAN /\ o[j].cell \in Places
  /\ \A j, l \in DOMAIN o : j < l => o[j].from < o[l].from

LEMMA OccurrencesOrdered ==
  ASSUME now \in Nat, NEW t \in Nat, NEW x, NEW o \in Occurrences(x, t)
  PROVE  IsHistoryOf(o, t)
<1> DEFINE One == UNION {{<<v>> : v \in Versions(x, f)} : f \in (now + 1)..t}
           Two == UNION {UNION {{<<v, w>> : v \in Versions(x, f), w \in Versions(x, g)} :
                                  g \in (f + 1)..t} : f \in (now + 1)..t}
<1>1. CASE \E f \in (now + 1)..t : \E v \in Versions(x, f) : o = <<v>>
  <2>1. PICK f \in (now + 1)..t : \E v \in Versions(x, f) : o = <<v>>
    BY <1>1
  <2>2. PICK v \in Versions(x, f) : o = <<v>>
    BY <2>1
  <2>3. v.from = f /\ v.live \in BOOLEAN /\ v.cell \in Places
    BY VersionRecord
  <2>4. Len(o) = 1 /\ DOMAIN o = {1} /\ o[1] = v /\ 1..1 = {1}
    BY <2>2
  <2> QED BY <2>3, <2>4 DEF IsHistoryOf
<1>2. CASE \E f \in (now + 1)..t : \E g \in (f + 1)..t :
             \E v \in Versions(x, f), w \in Versions(x, g) : o = <<v, w>>
  <2>1. PICK f \in (now + 1)..t : \E g \in (f + 1)..t :
               \E v \in Versions(x, f), w \in Versions(x, g) : o = <<v, w>>
    BY <1>2
  <2>2. PICK g \in (f + 1)..t : \E v \in Versions(x, f), w \in Versions(x, g) : o = <<v, w>>
    BY <2>1
  <2>3. PICK v \in Versions(x, f), w \in Versions(x, g) : o = <<v, w>>
    BY <2>2
  <2>4. v.from = f /\ v.live \in BOOLEAN /\ v.cell \in Places
    BY VersionRecord
  <2>5. w.from = g /\ w.live \in BOOLEAN /\ w.cell \in Places
    BY VersionRecord
  <2>6. Len(o) = 2 /\ DOMAIN o = {1, 2} /\ o[1] = v /\ o[2] = w /\ 1..2 = {1, 2}
    BY <2>3
  <2>7. g \in (now + 1)..t /\ f < g
    OBVIOUS
  <2> QED BY <2>4, <2>5, <2>6, <2>7 DEF IsHistoryOf
<1>3. CASE o \in One
  BY <1>1, <1>3
<1>4. CASE o \in Two
  <2>1. PICK f \in (now + 1)..t :
          o \in UNION {{<<v, w>> : v \in Versions(x, f), w \in Versions(x, g)} : g \in (f + 1)..t}
    BY <1>4
  <2>2. PICK g \in (f + 1)..t : o \in {<<v, w>> : v \in Versions(x, f), w \in Versions(x, g)}
    BY <2>1
  <2>3. \E v \in Versions(x, f), w \in Versions(x, g) : o = <<v, w>>
    BY <2>2
  <2> QED BY <1>2, <2>3
<1>5. Occurrences(x, t) = One \cup Two
  BY DEF Occurrences
<1> HIDE DEF One, Two
<1> QED BY <1>3, <1>4, <1>5

(* The facts about a batch that the proofs use. *)
LEMMA BatchFacts ==
  ASSUME now \in Nat, NEW t \in Nat, NEW b \in Batches(t)
  PROVE  /\ DOMAIN b \subseteq Ids
         /\ \A x \in DOMAIN b : IsHistoryOf(b[x], t)
         /\ IsLegal(b)
<1>1. \E S \in {T \in SUBSET Changing : Cardinality(T) \in 1..MaxTouched} :
        b \in [S -> UNION {Occurrences(x, t) : x \in S}]
  BY DEF Batches
<1>2. DOMAIN b \subseteq Ids
  BY <1>1, HistoryAssumption
<1> QED BY <1>2, OccurrencesOrdered DEF Batches

AnyCell == Places \cup {NoCell}

(* The smallest cell around some nodes is one of theirs or the root. *)
LEMMA ContainingIsCell ==
  ASSUME NEW cells \in SUBSET AnyCell
  PROVE  Containing(cells) \in AnyCell
<1>1. CASE Cardinality(cells) = 1
  <2>1. cells # {}
    BY <1>1, FS_EmptySet
  <2> QED BY <1>1, <2>1 DEF Containing
<1>2. CASE Cardinality(cells) # 1
  BY <1>2 DEF Containing, AnyCell, Places
<1> QED BY <1>1, <1>2

LEMMA NodesOfAreNodes ==
  ASSUME NEW x \in Ids
  PROVE  NodesOf(x) \subseteq Nodes
<1>1. CASE x \in Nodes
  BY <1>1 DEF NodesOf
<1>2. CASE x \notin Nodes
  <2>1. Refs[x] \subseteq Nodes \cup Ways
    BY <1>2, HistoryAssumption DEF Ids
  <2>2. \A m \in Refs[x] : (IF m \in Nodes THEN {m} ELSE Refs[m]) \subseteq Nodes
    BY <2>1, HistoryAssumption
  <2> QED BY <1>2, <2>2 DEF NodesOf
<1> QED BY <1>1, <1>2

LEMMA CellOfIsCell ==
  ASSUME NEW x \in Ids, NEW place \in [Nodes -> AnyCell]
  PROVE  CellOf(x, place) \in AnyCell
<1>1. {place[n] : n \in NodesOf(x)} \in SUBSET AnyCell
  BY NodesOfAreNodes
<1> QED BY <1>1, ContainingIsCell DEF CellOf

CurTyped == cur \in [Ids -> [version : Nat, stamp : Nat, live : BOOLEAN, cell : AnyCell]]

(* The last version of an element in a batch. *)
LEMMA FinalFacts ==
  ASSUME now \in Nat, NEW t \in Nat, NEW b \in Batches(t), NEW x \in DOMAIN b
  PROVE  /\ Len(b[x]) \in DOMAIN b[x] /\ Final(b[x]) = b[x][Len(b[x])]
         /\ Final(b[x]).from \in (now + 1)..t /\ Final(b[x]).live \in BOOLEAN
         /\ Final(b[x]).cell \in Places
<1>1. IsHistoryOf(b[x], t)
  BY BatchFacts
<1>2. Len(b[x]) \in DOMAIN b[x]
  BY <1>1 DEF IsHistoryOf
<1> QED BY <1>1, <1>2 DEF IsHistoryOf, Final

LEMMA NewCellIsCell ==
  ASSUME CurTyped, now \in Nat, NEW t \in Nat, NEW b \in Batches(t), NEW i \in Ids
  PROVE  NewCell(b, i) \in AnyCell /\ PrevCell(i) \in AnyCell
<1>1. PrevCell(i) \in AnyCell
  BY DEF PrevCell, CurTyped, AnyCell
<1> DEFINE place == [n \in Nodes |-> IF n \in DOMAIN b THEN Final(b[n]).cell ELSE cur[n].cell]
<1>2. place \in [Nodes -> AnyCell]
  <2>1. ASSUME NEW n \in Nodes PROVE cur[n].cell \in AnyCell
    BY DEF CurTyped, Ids
  <2>2. ASSUME NEW n \in DOMAIN b PROVE Final(b[n]).cell \in AnyCell
    BY FinalFacts DEF AnyCell
  <2> QED BY <2>1, <2>2
<1>3. CellOf(i, place) \in AnyCell
  BY <1>2, CellOfIsCell
<1> QED BY <1>1, <1>3 DEF NewCell

-----------------------------------------------------------------------------
(* The rows of a batch. *)

Entries == [time : Nat, rows : SUBSET Rows]

(* Whatever is stored is a row of some run. *)
LEMMA StoredIsLogged ==
  ASSUME NEW entries \in Seq(DOMAIN log), NEW r \in Stored(entries)
  PROVE  \E k \in DOMAIN log : r \in log[k].rows
<1>1. Range(entries) \in SUBSET DOMAIN log
  BY RangeOfSeq
<1> QED BY <1>1 DEF Stored

LEMMA RowIsLogged ==
  ASSUME TypeOK, NEW r \in BaseRows \cup TierRows
  PROVE  \E k \in DOMAIN log : r \in log[k].rows
BY StoredIsLogged DEF TypeOK, BaseRows, TierRows

(* The minor versions on record are at most as many as the runs. *)
LEMMA PrevMinorIsMax ==
  ASSUME TypeOK, MinorsBounded, NEW i
  PROVE  /\ PrevMinor(i) \in 0..Len(log)
         /\ \A r \in BaseRows \cup TierRows :
              r.id = i /\ r.version = cur[i].version => r.minor <= PrevMinor(i)
<1> DEFINE Q == {q \in BaseRows \cup TierRows : q.id = i /\ q.version = cur[i].version}
           S == {0} \cup {r.minor : r \in Q}
<1>1. Len(log) \in Nat /\ DOMAIN log = 1..Len(log)
  BY LenProperties DEF TypeOK
<1>2. \A r \in Q : r.minor \in Nat /\ r.minor <= Len(log)
  <2> SUFFICES ASSUME NEW r \in Q PROVE r.minor \in Nat /\ r.minor <= Len(log)
    OBVIOUS
  <2>1. PICK k \in DOMAIN log : r \in log[k].rows
    BY RowIsLogged
  <2>2. log[k] \in Entries
    BY ElementOfSeq, <1>1 DEF TypeOK, Entries
  <2>3. r \in Rows
    BY <2>1, <2>2 DEF Entries
  <2> QED BY <1>1, <2>1, <2>3 DEF MinorsBounded, Rows
<1>3. S \in SUBSET Nat /\ S # {} /\ \A k \in S : k <= Len(log)
  BY <1>1, <1>2
<1>4. MaxOf(S) \in S /\ \A k \in S : k <= MaxOf(S)
  BY <1>1, <1>3, MaxOfBounded
<1>5. PrevMinor(i) = MaxOf(S)
  BY DEF PrevMinor
<1>6. \A r \in Q : r.minor \in S
  OBVIOUS
<1> HIDE DEF S
<1>7. PrevMinor(i) \in 0..Len(log)
  <2>1. PrevMinor(i) \in S /\ S \subseteq Nat
    BY <1>3, <1>4, <1>5
  <2>2. PrevMinor(i) \in Nat /\ PrevMinor(i) <= Len(log)
    BY <1>3, <2>1
  <2> QED BY <1>1, <2>2
<1> QED BY <1>4, <1>5, <1>6, <1>7

(* A minor version begins after the last run, and by this one. *)
LEMMA MinorFromInside ==
  ASSUME now \in Nat, NEW t \in Nat, t > now, NEW b \in Batches(t), NEW i
  PROVE  MinorFrom(b, i, t) \in (now + 1)..t
<1> DEFINE S == {Final(b[x]).from : x \in Refs[i] \cap DOMAIN b}
<1>1. CASE Refs[i] \cap DOMAIN b = {}
  BY <1>1 DEF MinorFrom
<1>2. CASE Refs[i] \cap DOMAIN b # {}
  <2>1. S \subseteq (now + 1)..t /\ S # {}
    BY <1>2, FinalFacts
  <2>2. S \in SUBSET Nat /\ \A k \in S : k <= t
    BY <2>1
  <2>3. MaxOf(S) \in S
    BY <2>1, <2>2, MaxOfBounded
  <2>4. MinorFrom(b, i, t) = MaxOf(S)
    BY <1>2 DEF MinorFrom
  <2> HIDE DEF S
  <2> QED BY <2>1, <2>3, <2>4
<1> QED BY <1>1, <1>2

(* Parents are touched, members of the batch are not. *)
LEMMA TouchedFacts ==
  ASSUME NEW S, NEW i \in Touched(S)
  PROVE  i \in Ids /\ i \in Ways \cup Relations /\ i \notin S /\ cur[i].live
BY DEF Touched, TouchedWays, Ids

LEMMA OwnRowFacts ==
  ASSUME CurTyped, now \in Nat, NEW t \in Nat, NEW b \in Batches(t),
         NEW x \in DOMAIN b, NEW j \in DOMAIN b[x]
  PROVE  OwnRow(b, x, j) \in Rows /\ OwnRow(b, x, j).from \in (now + 1)..t
<1>1. x \in Ids /\ IsHistoryOf(b[x], t)
  BY BatchFacts
<1>2. /\ b[x][j].from \in Nat /\ b[x][j].from \in (now + 1)..t /\ b[x][j].live \in BOOLEAN
      /\ cur[x].version + j \in Nat
  BY <1>1 DEF IsHistoryOf, CurTyped
<1>3. NewCell(b, x) \in AnyCell /\ PrevCell(x) \in AnyCell /\ NoCell \in AnyCell
  BY <1>1, NewCellIsCell DEF AnyCell
<1> QED BY <1>1, <1>2, <1>3 DEF OwnRow, Rows, AnyCell

LEMMA MinorRowFacts ==
  ASSUME TypeOK, CurTyped, MinorsBounded, NEW t \in Nat, t > now, NEW b \in Batches(t),
         NEW i \in Touched(DOMAIN b)
  PROVE  /\ MinorRow(b, i, t) \in Rows /\ MinorRow(b, i, t).from \in (now + 1)..t
         /\ MinorRow(b, i, t).minor \in 1..(Len(log) + 1)
<1>1. i \in Ids /\ now \in Nat /\ Len(log) \in Nat
  BY TouchedFacts, LenProperties DEF TypeOK
<1>2. PrevMinor(i) \in 0..Len(log)
  BY PrevMinorIsMax
<1>3. MinorFrom(b, i, t) \in (now + 1)..t /\ MinorFrom(b, i, t) \in Nat
  BY <1>1, MinorFromInside
<1>4. NewCell(b, i) \in AnyCell /\ PrevCell(i) \in AnyCell
  BY <1>1, NewCellIsCell
<1>5. PrevMinor(i) + 1 \in Nat /\ PrevMinor(i) + 1 \in 1..(Len(log) + 1) /\ cur[i].version \in Nat
  BY <1>1, <1>2 DEF CurTyped
<1> QED BY <1>1, <1>3, <1>4, <1>5 DEF MinorRow, Rows, AnyCell

(* Every row of a batch is well typed and begins after the last run. *)
LEMMA BatchRows ==
  ASSUME TypeOK, MinorsBounded, NEW t \in Nat, t > now, NEW b \in Batches(t),
         NEW r \in HistoryBatch(b, t)
  PROVE  r \in Rows /\ r.from \in (now + 1)..t /\ r.minor <= Len(log) + 1
<1>1. CurTyped /\ now \in Nat /\ Len(log) \in Nat
  BY LenProperties DEF TypeOK, CurTyped, AnyCell
<1>2. CASE r \in OwnRows(b)
  <2>1. PICK x \in DOMAIN b : \E j \in DOMAIN b[x] : r = OwnRow(b, x, j)
    BY <1>2 DEF OwnRows
  <2>2. PICK j \in DOMAIN b[x] : r = OwnRow(b, x, j)
    BY <2>1
  <2>3. r.minor = 0
    BY <2>2 DEF OwnRow
  <2> QED BY <1>1, <2>2, <2>3, OwnRowFacts
<1>3. CASE r \in MinorRows(b, t)
  <2>1. PICK i \in Touched(DOMAIN b) : r = MinorRow(b, i, t)
    BY <1>3 DEF MinorRows
  <2> QED BY <1>1, <2>1, MinorRowFacts
<1> QED BY <1>2, <1>3 DEF HistoryBatch

(* The state after a batch is well typed. *)
LEMMA ResolvedTyped ==
  ASSUME CurTyped, now \in Nat, NEW t \in Nat, NEW b \in Batches(t)
  PROVE  Resolved(b) \in [Ids -> [version : Nat, stamp : Nat, live : BOOLEAN, cell : AnyCell]]
<1> SUFFICES ASSUME NEW i \in Ids
             PROVE  Resolved(b)[i] \in [version : Nat, stamp : Nat, live : BOOLEAN, cell : AnyCell]
  BY DEF Resolved
<1>1. NewCell(b, i) \in AnyCell
  BY NewCellIsCell
<1>2. CASE i \in DOMAIN b
  <2>1. IsHistoryOf(b[i], t)
    BY <1>2, BatchFacts
  <2>2. Len(b[i]) \in Nat /\ cur[i].version + Len(b[i]) \in Nat
    BY <2>1 DEF IsHistoryOf, CurTyped
  <2>3. Final(b[i]).from \in Nat /\ LiveAfter(b, i) \in BOOLEAN
    BY <1>2, FinalFacts DEF LiveAfter
  <2> QED BY <1>1, <1>2, <2>2, <2>3 DEF Resolved
<1>3. CASE i \notin DOMAIN b /\ i \in Touched(DOMAIN b)
  BY <1>1, <1>3 DEF Resolved, CurTyped
<1>4. CASE i \notin DOMAIN b /\ i \notin Touched(DOMAIN b)
  BY <1>4 DEF Resolved, CurTyped
<1> QED BY <1>2, <1>3, <1>4

-----------------------------------------------------------------------------
(* HistoryInv is inductive. *)

(* The base and the tiers together. *)
LEMMA CopiesInAll ==
  ASSUME NEW S, NEW k, NEW p \in Seq(S), NEW q \in Seq(S), NEW r \in Seq(S), NEW s \in Seq(S)
  PROVE  Copies(k, p \o q \o r \o s) = Copies(k, p) + Copies(k, q) + Copies(k, r) + Copies(k, s)
<1>1. p \o q \in Seq(S) /\ p \o q \o r \in Seq(S)
  BY ConcatProperties
<1>2. /\ Copies(k, p \o q \o r \o s) = Copies(k, p \o q \o r) + Copies(k, s)
      /\ Copies(k, p \o q \o r) = Copies(k, p \o q) + Copies(k, r)
      /\ Copies(k, p \o q) = Copies(k, p) + Copies(k, q)
  BY <1>1, CopiesConcat
<1> QED BY <1>2

Total(k) == Copies(k, base) + Copies(k, hour) + Copies(k, day) + Copies(k, week)

LEMMA TotalCopies ==
  ASSUME NEW S, base \in Seq(S), hour \in Seq(S), day \in Seq(S), week \in Seq(S), NEW k
  PROVE  Copies(k, base \o hour \o day \o week) = Total(k)
BY CopiesInAll DEF Total

(* What a run does to the number of copies of each entry. *)
LEMMA TiersKeepCopies ==
  ASSUME NEW S, base \in Seq(S), hour \in Seq(S), day \in Seq(S), week \in Seq(S),
         NEW n \in S, NEW t, base' = base,
         AppendToHour(n, t) \/ FoldHour(n, t) \/ FoldDay(n, t)
  PROVE  /\ hour' \in Seq(S) /\ day' \in Seq(S) /\ week' \in Seq(S) /\ hour' # <<>>
         /\ \A k : k # n => Total(k)' = Total(k)
         /\ Total(n)' \in {Total(n) + 1, Total(n) + 2}
<1> DEFINE one == <<n>>
<1>1. one \in Seq(S) /\ one # <<>>
  OBVIOUS
<1>2. ASSUME NEW k PROVE Copies(k, one) = IF k = n THEN 1 ELSE 0
  BY CopiesSingle
<1> HIDE DEF one
<1>3. ASSUME NEW k
      PROVE  /\ Copies(k, base) \in Nat /\ Copies(k, hour) \in Nat
             /\ Copies(k, day) \in Nat /\ Copies(k, week) \in Nat
  BY CopiesFinite
<1>4. CASE AppendToHour(n, t)
  <2>1. hour' = hour \o one /\ day' = day /\ week' = week
    BY <1>4 DEF AppendToHour, AppendTables, one
  <2>2. hour \o one \in Seq(S) /\ hour \o one # <<>>
    BY <1>1, ConcatProperties, ConcatEqualIffEmpty
  <2>3. ASSUME NEW k PROVE Total(k)' = Total(k) + Copies(k, one)
    <3>1. Copies(k, hour \o one) = Copies(k, hour) + Copies(k, one)
      BY <1>1, CopiesConcat
    <3>2. Total(k)' = Copies(k, base) + Copies(k, hour \o one) + Copies(k, day) + Copies(k, week)
      BY <2>1 DEF Total
    <3>3. Total(k) = Copies(k, base) + Copies(k, hour) + Copies(k, day) + Copies(k, week)
      BY DEF Total
    <3>4. Copies(k, one) \in Nat
      BY <1>2
    <3> QED BY <1>3, <3>1, <3>2, <3>3, <3>4
  <2>4. ASSUME NEW k PROVE Total(k)' = Total(k) + IF k = n THEN 1 ELSE 0
    BY <1>2, <2>3
  <2>5. ASSUME NEW k PROVE Total(k) \in Nat
    BY <1>3 DEF Total
  <2> QED BY <2>1, <2>2, <2>4, <2>5
<1>5. CASE FoldHour(n, t)
  <2>1. hour' = one /\ day' = day \o hour /\ week' = week
    BY <1>5 DEF FoldHour, AppendTables, one
  <2>2. day \o hour \in Seq(S)
    BY ConcatProperties
  <2>3. ASSUME NEW k PROVE Total(k)' = Total(k) + Copies(k, one)
    <3>1. Copies(k, day \o hour) = Copies(k, day) + Copies(k, hour)
      BY CopiesConcat
    <3>2. Total(k)' = Copies(k, base) + Copies(k, one) + Copies(k, day \o hour) + Copies(k, week)
      BY <2>1 DEF Total
    <3>3. Total(k) = Copies(k, base) + Copies(k, hour) + Copies(k, day) + Copies(k, week)
      BY DEF Total
    <3>4. Copies(k, one) \in Nat
      BY <1>2
    <3> QED BY <1>3, <3>1, <3>2, <3>3, <3>4
  <2>4. ASSUME NEW k PROVE Total(k)' = Total(k) + IF k = n THEN 1 ELSE 0
    BY <1>2, <2>3
  <2>5. ASSUME NEW k PROVE Total(k) \in Nat
    BY <1>3 DEF Total
  <2> QED BY <1>1, <2>1, <2>2, <2>4, <2>5
<1>6. CASE FoldDay(n, t)
  <2>1. hour' = one /\ day' = one /\ week' = week \o (day \o hour)
    BY <1>6 DEF FoldDay, AppendTables, one
  <2>2. day \o hour \in Seq(S) /\ week \o (day \o hour) \in Seq(S)
    BY ConcatProperties
  <2>3. ASSUME NEW k PROVE Total(k)' = Total(k) + Copies(k, one) + Copies(k, one)
    <3>1. Copies(k, week \o (day \o hour)) = Copies(k, week) + Copies(k, day \o hour)
      BY <2>2, CopiesConcat
    <3>2. Copies(k, day \o hour) = Copies(k, day) + Copies(k, hour)
      BY CopiesConcat
    <3>3. Total(k)' = Copies(k, base) + Copies(k, one) + Copies(k, one)
                        + Copies(k, week \o (day \o hour))
      BY <2>1 DEF Total
    <3>4. Total(k) = Copies(k, base) + Copies(k, hour) + Copies(k, day) + Copies(k, week)
      BY DEF Total
    <3>5. Copies(k, one) \in Nat
      BY <1>2
    <3> QED BY <1>3, <3>1, <3>2, <3>3, <3>4, <3>5
  <2>4. ASSUME NEW k PROVE Total(k)' = Total(k) + IF k = n THEN 2 ELSE 0
    <3>1. Total(k) \in Nat
      BY <1>3 DEF Total
    <3> QED BY <1>2, <2>3, <3>1
  <2>5. ASSUME NEW k PROVE Total(k) \in Nat
    BY <1>3 DEF Total
  <2> QED BY <1>1, <2>1, <2>2, <2>4, <2>5
<1> QED BY <1>4, <1>5, <1>6

(* The time of a run. *)
LEMMA UpcomingIsLater ==
  ASSUME now \in Nat, NEW last, NEW t \in Upcoming(last)
  PROVE  t \in Nat /\ t > now
BY HistoryAssumption DEF Upcoming

(* The log after a run. *)
LEMMA LogGrows ==
  ASSUME TypeOK, NEW e \in Entries, log' = Append(log, e)
  PROVE  /\ log' \in Seq(Entries) /\ Len(log) \in Nat /\ Len(log') = Len(log) + 1
         /\ DOMAIN log = 1..Len(log) /\ DOMAIN log' = 1..(Len(log) + 1)
         /\ \A k \in DOMAIN log : log'[k] = log[k]
         /\ log'[Len(log) + 1] = e
<1>1. log \in Seq(Entries)
  BY DEF TypeOK, Entries
<1>2. /\ log' \in Seq(Entries) /\ Len(log') = Len(log) + 1
      /\ \A i \in 1..Len(log) : log'[i] = log[i]
      /\ log'[Len(log) + 1] = e
  BY <1>1, AppendProperties
<1>3. Len(log) \in Nat /\ DOMAIN log = 1..Len(log) /\ DOMAIN log' = 1..Len(log')
  BY <1>1, <1>2, LenProperties
<1> QED BY <1>2, <1>3

(* A run's batch and what it writes. *)
RunOf(t, b) ==
  /\ log' = Append(log, [time |-> t, rows |-> HistoryBatch(b, t)])
  /\ AppendToHour(Len(log'), t) \/ FoldHour(Len(log'), t) \/ FoldDay(Len(log'), t)
  /\ cur' = Resolved(b) /\ now' = t /\ base' = base
  /\ started /\ started' = started

LEMMA RunHasBatch ==
  ASSUME TypeOK, RunWithHistory
  PROVE  \E t \in Nat : t > now /\ \E b \in Batches(t) : RunOf(t, b) /\ WriteDeltas(t, FALSE)
<1>1. PICK t \in Upcoming(MaxTime) : \E b \in Batches(t) : RunOf(t, b) /\ WriteDeltas(t, FALSE)
  BY DEF RunWithHistory, RunOf
<1>2. t \in Nat /\ t > now
  BY UpcomingIsLater DEF TypeOK
<1> QED BY <1>1, <1>2

LEMMA DeltasTyped ==
  ASSUME TypeOK, NEW t \in Nat, NEW e \in BOOLEAN, WriteDeltas(t, e)
  PROVE  deltaHour' \in Nat \cup {NoTime} /\ deltaDay' \in Nat \cup {NoTime}
BY DEF WriteDeltas, TypeOK

(* A run appends its rows to the tiers and loses none. *)
LEMMA RunWithHistoryKeeps == HistoryInv /\ RunWithHistory => HistoryInv'
<1> SUFFICES ASSUME HistoryInv, RunWithHistory PROVE HistoryInv'
  OBVIOUS
<1>1. TypeOK /\ MinorsBounded /\ NothingIsLost
  BY DEF HistoryInv
<1>2. PICK t \in Nat : t > now /\ \E b \in Batches(t) : RunOf(t, b) /\ WriteDeltas(t, FALSE)
  BY <1>1, RunHasBatch
<1>3. PICK b \in Batches(t) : RunOf(t, b) /\ WriteDeltas(t, FALSE)
  BY <1>2
<1> DEFINE e == [time |-> t, rows |-> HistoryBatch(b, t)]
<1>0. PICK n : n = Len(log) + 1
  OBVIOUS
<1>4. e \in Entries /\ \A r \in e.rows : r.minor <= n
  BY <1>1, <1>2, <1>0, BatchRows DEF Entries
<1>5. log' = Append(log, e)
  BY <1>3 DEF RunOf
<1> HIDE DEF e
<1>6. /\ log' \in Seq(Entries) /\ Len(log) \in Nat /\ Len(log') = n
      /\ DOMAIN log = 1..Len(log) /\ DOMAIN log' = 1..n
      /\ \A k \in DOMAIN log : log'[k] = log[k]
      /\ log'[n] = e
  BY <1>1, <1>4, <1>5, <1>0, LogGrows
<1>7. n \in DOMAIN log' /\ n \notin DOMAIN log /\ DOMAIN log \subseteq DOMAIN log'
      /\ \A k \in DOMAIN log' : k \in DOMAIN log \/ k = n
  BY <1>6, <1>0
<1>8. /\ base \in Seq(DOMAIN log) /\ hour \in Seq(DOMAIN log)
      /\ day \in Seq(DOMAIN log) /\ week \in Seq(DOMAIN log)
  BY <1>1 DEF TypeOK
<1>9. /\ base \in Seq(DOMAIN log') /\ hour \in Seq(DOMAIN log')
      /\ day \in Seq(DOMAIN log') /\ week \in Seq(DOMAIN log')
  BY <1>7, <1>8, SeqMonotonic
<1>10. AppendToHour(n, t) \/ FoldHour(n, t) \/ FoldDay(n, t)
  BY <1>3, <1>6 DEF RunOf
<1>11. base' = base
  BY <1>3 DEF RunOf
<1>12. /\ hour' \in Seq(DOMAIN log') /\ day' \in Seq(DOMAIN log') /\ week' \in Seq(DOMAIN log')
       /\ hour' # <<>>
       /\ \A k : k # n => Total(k)' = Total(k)
       /\ Total(n)' \in {Total(n) + 1, Total(n) + 2}
  <2>1. PICK D : D = DOMAIN log'
    OBVIOUS
  <2> QED BY <1>7, <1>9, <1>10, <1>11, <2>1, TiersKeepCopies
<1>13. NothingIsLost'
  <2> SUFFICES ASSUME NEW k \in DOMAIN log'
               PROVE  Copies(k, base' \o hour' \o day' \o week') \in 1..2
    BY DEF NothingIsLost
  <2>1. Copies(k, base' \o hour' \o day' \o week') = Total(k)'
    BY <1>9, <1>11, <1>12, CopiesInAll DEF Total
  <2>2. CASE k = n
    <3>1. Copies(n, base) = 0 /\ Copies(n, hour) = 0 /\ Copies(n, day) = 0 /\ Copies(n, week) = 0
      BY <1>7, <1>8, CopiesOutside
    <3>2. Total(n) = 0
      BY <3>1 DEF Total
    <3>3. Total(n)' \in {1, 2}
      BY <1>12, <3>2
    <3> QED BY <2>1, <2>2, <3>3
  <2>3. CASE k # n
    <3>1. k \in DOMAIN log
      BY <1>7, <2>3
    <3>2. Copies(k, base \o hour \o day \o week) \in 1..2
      BY <1>1, <3>1 DEF NothingIsLost
    <3>3. Copies(k, base \o hour \o day \o week) = Total(k)
      BY <1>8, TotalCopies
    <3> QED BY <1>12, <2>1, <2>3, <3>2, <3>3
  <2> QED BY <2>2, <2>3
<1>14. MinorsBounded'
  <2> SUFFICES ASSUME NEW k \in DOMAIN log', NEW r \in log'[k].rows PROVE r.minor <= k
    BY DEF MinorsBounded
  <2> QED BY <1>1, <1>4, <1>6, <1>7 DEF MinorsBounded
<1>15. TypeOK'
  <2>1. CurTyped /\ now \in Nat
    BY <1>1 DEF TypeOK, CurTyped, AnyCell
  <2>2. CurTyped'
    BY <1>3, <2>1, ResolvedTyped DEF RunOf, CurTyped
  <2>3. now' \in Nat /\ started' \in BOOLEAN /\ overDeltas' \in BOOLEAN
    BY <1>1, <1>3 DEF RunOf, RunWithHistory, TypeOK
  <2>4. deltaHour' \in Nat \cup {NoTime} /\ deltaDay' \in Nat \cup {NoTime}
    BY <1>1, <1>3, DeltasTyped
  <2> QED BY <1>6, <1>9, <1>11, <1>12, <2>2, <2>3, <2>4 DEF TypeOK, CurTyped, AnyCell, Entries
<1>16. NoRowsYet' /\ CanFold'
  BY <1>3, <1>12 DEF RunOf, NoRowsYet, CanFold
<1> QED BY <1>13, <1>14, <1>15, <1>16 DEF HistoryInv

(* A run that changes nothing, or has no history to append to. *)
LEMMA OtherRunsKeep == HistoryInv /\ (RunEmpty \/ RunWithoutHistory) => HistoryInv'
<1> SUFFICES ASSUME HistoryInv, RunEmpty \/ RunWithoutHistory PROVE HistoryInv'
  OBVIOUS
<1>1. TypeOK /\ NoRowsYet /\ MinorsBounded /\ NothingIsLost /\ CanFold
  BY DEF HistoryInv
<1>2. UNCHANGED <<started, overDeltas, log, base, hour, day, week>>
  BY DEF RunEmpty, RunWithoutHistory, tiers
<1>3. CASE RunEmpty
  <2>1. PICK t \in Upcoming(MaxTime) : now' = t /\ WriteDeltas(t, TRUE)
    BY <1>3 DEF RunEmpty
  <2>2. t \in Nat
    BY <1>1, UpcomingIsLater DEF TypeOK
  <2>3. deltaHour' \in Nat \cup {NoTime} /\ deltaDay' \in Nat \cup {NoTime}
    BY <1>1, <2>1, <2>2, DeltasTyped
  <2>4. TypeOK'
    BY <1>1, <1>2, <1>3, <2>1, <2>2, <2>3 DEF TypeOK, RunEmpty
  <2>5. CanFold'
    BY <1>1, <1>2, <2>1 DEF CanFold, WriteDeltas
  <2> QED BY <1>1, <1>2, <2>4, <2>5 DEF HistoryInv, NoRowsYet, MinorsBounded, NothingIsLost
<1>4. CASE RunWithoutHistory
  <2>1. PICK t \in Upcoming(MaxEarly) : \E b \in Batches(t) :
               cur' = Resolved(b) /\ now' = t /\ WriteDeltas(t, FALSE)
    BY <1>4 DEF RunWithoutHistory
  <2>2. t \in Nat /\ CurTyped /\ now \in Nat
    BY <1>1, UpcomingIsLater DEF TypeOK, CurTyped, AnyCell
  <2>3. deltaHour' \in Nat \cup {NoTime} /\ deltaDay' \in Nat \cup {NoTime}
    BY <1>1, <2>1, <2>2, DeltasTyped
  <2>4. CurTyped'
    BY <2>1, <2>2, ResolvedTyped DEF CurTyped
  <2>5. TypeOK'
    BY <1>1, <1>2, <2>1, <2>2, <2>3, <2>4 DEF TypeOK, CurTyped, AnyCell
  <2>6. ~started'
    BY <1>2, <1>4 DEF RunWithoutHistory
  <2> QED BY <1>1, <1>2, <2>5, <2>6 DEF HistoryInv, NoRowsYet, MinorsBounded, NothingIsLost, CanFold
<1> QED BY <1>3, <1>4

(* The first base holds the current state. *)
LEMMA CurrentRowsTyped ==
  ASSUME TypeOK
  PROVE  CurrentRows \subseteq Rows /\ \A r \in CurrentRows : r.minor = 0
<1> SUFFICES ASSUME NEW i \in Ids,
                    NEW r, r = [id |-> i, version |-> cur[i].version, minor |-> 0, from |-> cur[i].stamp,
                                live |-> TRUE, cell |-> cur[i].cell, prev |-> NoCell]
             PROVE  r \in Rows /\ r.minor = 0
  BY DEF CurrentRows
<1>1. cur[i].version \in Nat /\ cur[i].stamp \in Nat /\ cur[i].cell \in Places \cup {NoCell}
  BY DEF TypeOK
<1> QED BY <1>1 DEF Rows

LEMMA StartKeeps == HistoryInv /\ (HistoryInit \/ HistoryBuild) => HistoryInv'
<1> SUFFICES ASSUME HistoryInv, HistoryInit \/ HistoryBuild PROVE HistoryInv'
  OBVIOUS
<1>1. Start /\ TypeOK /\ NoRowsYet
  BY DEF HistoryInit, HistoryBuild, HistoryInv
<1>2. /\ started' = TRUE /\ log' = <<[time |-> now, rows |-> CurrentRows]>> /\ base' = <<1>>
      /\ UNCHANGED <<cur, now, deltaHour, deltaDay, hour, day, week>>
      /\ hour = <<>> /\ day = <<>> /\ week = <<>>
  BY <1>1 DEF Start, NoRowsYet, tiers
<1> DEFINE e == [time |-> now, rows |-> CurrentRows]
<1>3. e \in Entries /\ \A r \in e.rows : r.minor = 0
  BY <1>1, CurrentRowsTyped DEF Entries, TypeOK
<1> HIDE DEF e
<1>4. log' = <<e>>
  BY <1>2 DEF e
<1>5. DOMAIN log' = {1} /\ log' \in Seq(Entries) /\ log'[1] = e
  BY <1>3, <1>4
<1>6. <<1>> \in Seq({1}) /\ <<>> \in Seq({1})
  BY EmptySeq
<1>7. TypeOK'
  BY <1>1, <1>2, <1>5, <1>6 DEF TypeOK, Entries, HistoryInit, HistoryBuild
<1>8. NothingIsLost'
  <2>1. Copies(1, <<1>>) = 1
    BY CopiesSingle
  <2>2. Copies(1, <<>>) = 0
    <3>1. {j \in DOMAIN <<>> : <<>>[j] = 1} = {}
      OBVIOUS
    <3> QED BY <3>1, FS_EmptySet DEF Copies
  <2>3. Copies(1, <<1>> \o <<>> \o <<>> \o <<>>) = 1
    BY <1>6, <2>1, <2>2, CopiesInAll
  <2> QED BY <1>2, <1>5, <2>3 DEF NothingIsLost
<1>9. CanFold'
  BY <1>2 DEF CanFold, HistoryInit, HistoryBuild, NoDeltas
<1>10. MinorsBounded' /\ NoRowsYet'
  BY <1>2, <1>3, <1>5 DEF MinorsBounded, NoRowsYet
<1> QED BY <1>7, <1>8, <1>9, <1>10 DEF HistoryInv

(* Compaction moves every row to the base. *)
LEMMA CompactKeeps == HistoryInv /\ Compact => HistoryInv'
<1> SUFFICES ASSUME HistoryInv, Compact PROVE HistoryInv'
  OBVIOUS
<1>1. TypeOK /\ NoRowsYet /\ MinorsBounded /\ NothingIsLost
  BY DEF HistoryInv
<1>2. /\ base' = base \o hour \o day \o week /\ hour' = <<>> /\ day' = <<>> /\ week' = <<>>
      /\ deltaHour' = NoTime /\ deltaDay' = NoTime /\ overDeltas' = FALSE
      /\ UNCHANGED <<cur, now, started, log>>
  BY DEF Compact, Folded
<1>3. /\ base \in Seq(DOMAIN log) /\ hour \in Seq(DOMAIN log)
      /\ day \in Seq(DOMAIN log) /\ week \in Seq(DOMAIN log)
  BY <1>1 DEF TypeOK
<1>4. base \o hour \o day \o week \in Seq(DOMAIN log) /\ <<>> \in Seq(DOMAIN log)
  <2>1. base \o hour \in Seq(DOMAIN log)
    BY <1>3, ConcatProperties
  <2>2. base \o hour \o day \in Seq(DOMAIN log)
    BY <1>3, <2>1, ConcatProperties
  <2> QED BY <1>3, <2>2, ConcatProperties, EmptySeq
<1>5. TypeOK'
  BY <1>1, <1>2, <1>4 DEF TypeOK
<1>6. base' \o hour' \o day' \o week' = base \o hour \o day \o week
  <2> DEFINE all == base \o hour \o day \o week
  <2>1. all \in Seq(DOMAIN log)
    BY <1>4
  <2> HIDE DEF all
  <2>2. all \o <<>> \o <<>> \o <<>> = all
    BY <2>1, ConcatEmptySeq
  <2> QED BY <1>2, <2>2 DEF all
<1>7. NothingIsLost'
  BY <1>1, <1>2, <1>6 DEF NothingIsLost
<1>8. NoRowsYet'
  <2>1. <<>> \o <<>> \o <<>> \o <<>> = <<>>
    <3>1. <<>> \in Seq({})
      BY EmptySeq
    <3> QED BY <3>1, ConcatEmptySeq
  <2> QED BY <1>1, <1>2, <2>1 DEF NoRowsYet
<1> QED BY <1>1, <1>2, <1>5, <1>7, <1>8 DEF HistoryInv, MinorsBounded, CanFold

LEMMA HistoryInit0 == Init => HistoryInv
<1> SUFFICES ASSUME Init PROVE HistoryInv
  OBVIOUS
<1>1. /\ cur \in [Ids -> [version : Nat, stamp : Nat, live : BOOLEAN, cell : Places \cup {NoCell}]]
  BY HistoryAssumption DEF Init, Places
<1>2. DOMAIN log = {} /\ \A S : <<>> \in Seq(S)
  BY EmptySeq DEF Init
<1> QED BY <1>1, <1>2 DEF Init, HistoryInv, TypeOK, NoRowsYet, MinorsBounded, NothingIsLost, CanFold

(* Through every run, fold and compaction, the history is well formed. *)
LEMMA HistoryStep == HistoryInv /\ [Next]_vars => HistoryInv'
<1>1. HistoryInv /\ UNCHANGED vars => HistoryInv'
  BY DEF HistoryInv, TypeOK, NoRowsYet, MinorsBounded, NothingIsLost, CanFold, vars, tiers
<1> QED BY <1>1, RunWithHistoryKeeps, OtherRunsKeep, StartKeeps, CompactKeeps DEF Next

(* Through every run, fold and compaction the history is well typed, loses *)
(* nothing and can be folded (_write_history_tiers, _compact_history_type).*)
THEOREM HistoryIsKept == Spec => []HistoryInv
BY HistoryInit0, HistoryStep, PTL DEF Spec

(* Whatever a run appended stays in the base or in a tier, once or twice   *)
(* (_write_history_tiers, _compact_history_type).                          *)
THEOREM NothingIsEverLost == Spec => []NothingIsLost
BY HistoryIsKept, PTL DEF HistoryInv

(* When an hour has passed there is an hour tier to fold, unless the       *)
(* history was built over delta tiers (hour_old["seq_from"]).              *)
THEOREM FoldsSucceed == Spec => []CanFold
BY HistoryIsKept, PTL DEF HistoryInv

-----------------------------------------------------------------------------
(* Reading rows. *)

(* Where no element has two rows of one instant, both sort orders are the  *)
(* order of valid_from.                                                    *)
LEMMA OrdersAgree ==
  ASSUME NEW rows \in SUBSET Rows, OneAtATime(rows), NEW r \in rows, NEW s \in rows, r.id = s.id
  PROVE  (Precedes(r, s) <=> r.from < s.from) /\ (IsNewer(s, r) <=> s.from > r.from)
<1>1. /\ r.from \in Nat /\ s.from \in Nat /\ r.version \in Nat /\ r.minor \in Nat
      /\ r.live \in BOOLEAN
  BY DEF Rows
<1>2. CASE r.from = s.from
  <2>1. r = s
    BY <1>2 DEF OneAtATime
  <2> QED BY <1>1, <2>1 DEF Precedes, IsNewer
<1>3. CASE r.from # s.from
  BY <1>1, <1>3 DEF Precedes, IsNewer
<1> QED BY <1>2, <1>3

LEMMA ValidIsLast ==
  ASSUME NEW rows \in SUBSET Rows, OneAtATime(rows), NEW t
  PROVE  Valid(rows, t) = LastBy(rows, t)
<1>1. ASSUME NEW r \in rows, NEW s \in rows, s.id = r.id
      PROVE  Precedes(r, s) <=> s.from > r.from
  <2>1. r.from \in Nat /\ s.from \in Nat
    BY DEF Rows
  <2> QED BY <1>1, <2>1, OrdersAgree
<1> QED BY <1>1 DEF Valid, LastBy

(* An element with a row by t has a last one. *)
LEMMA LastExists ==
  ASSUME NEW rows \in SUBSET Rows, NEW t \in Nat, NEW r \in rows, r.from <= t
  PROVE  \E s \in LastBy(rows, t) : s.id = r.id /\ s.from >= r.from
<1> DEFINE Q == {s \in rows : s.id = r.id /\ s.from <= t}
           S == {s.from : s \in Q}
<1>1. \A s \in rows : s.from \in Nat
  BY DEF Rows
<1>2. S \in SUBSET Nat /\ r.from \in S /\ \A k \in S : k <= t
  BY <1>1
<1>3. MaxOf(S) \in S /\ \A k \in S : k <= MaxOf(S)
  BY <1>2, MaxOfBounded
<1>4. PICK s \in Q : s.from = MaxOf(S)
  BY <1>3
<1>5. \A q \in Q : q.from <= s.from
  BY <1>3, <1>4
<1>6. s.from >= r.from
  BY <1>1, <1>5
<1>7. s \in LastBy(rows, t)
  <2>1. ASSUME NEW q \in rows, q.id = s.id, q.from > s.from, q.from <= t PROVE FALSE
    <3>1. q \in Q
      BY <1>4, <2>1
    <3> QED BY <1>1, <1>5, <2>1, <3>1
  <2> QED BY <1>4, <2>1 DEF LastBy
<1> QED BY <1>4, <1>6, <1>7

(* There is only one. *)
LEMMA LastIsUnique ==
  ASSUME NEW rows \in SUBSET Rows, OneAtATime(rows), NEW t,
         NEW r \in LastBy(rows, t), NEW s \in LastBy(rows, t), r.id = s.id
  PROVE  r = s
<1>1. r.from \in Nat /\ s.from \in Nat
  BY DEF LastBy, Rows
<1>2. ~(s.from > r.from) /\ ~(r.from > s.from)
  BY DEF LastBy
<1>3. r.from = s.from
  BY <1>1, <1>2
<1> QED BY <1>3 DEF LastBy, OneAtATime

(* The base by valid_to and the tiers by valid_from, ranked together, give *)
(* the last rows of all.                                                   *)
LEMMA RankedIsLast ==
  ASSUME NEW B \in SUBSET Rows, NEW T \in SUBSET Rows, OneAtATime(B \cup T), NEW t \in Nat
  PROVE  StateAt(Valid(B, t) \cup {r \in T : r.from <= t}) = LastBy(B \cup T, t)
<1> DEFINE X == LastBy(B, t) \cup {r \in T : r.from <= t}
<1>1. OneAtATime(B) /\ B \cup T \in SUBSET Rows /\ \A r \in B \cup T : r.from \in Nat
  BY DEF OneAtATime, Rows
<1>2. Valid(B, t) = LastBy(B, t)
  BY <1>1, ValidIsLast
<1>3. X \subseteq B \cup T /\ \A r \in X : r.from <= t
  BY DEF LastBy
<1>4. ASSUME NEW r \in StateAt(X) PROVE r \in LastBy(B \cup T, t)
  <2>1. r \in X /\ r \in B \cup T /\ r.from <= t
    BY <1>3 DEF StateAt
  <2>2. ASSUME NEW s \in X, s.id = r.id, s.from > r.from PROVE FALSE
    <3>1. IsNewer(s, r)
      BY <1>1, <1>3, <2>1, <2>2, OrdersAgree
    <3> QED BY <2>2, <3>1 DEF StateAt
  <2>3. ASSUME NEW s \in B \cup T, s.id = r.id, s.from > r.from, s.from <= t PROVE FALSE
    <3>1. CASE s \in T
      BY <2>2, <2>3, <3>1
    <3>2. CASE s \in B
      <4>1. PICK q \in LastBy(B, t) : q.id = s.id /\ q.from >= s.from
        BY <2>3, <3>2, LastExists
      <4>2. q \in X /\ q.from > r.from
        BY <1>1, <1>3, <2>1, <2>3, <4>1
      <4> QED BY <2>2, <2>3, <4>1, <4>2
    <3> QED BY <3>1, <3>2
  <2> HIDE DEF X
  <2> QED BY <2>1, <2>3 DEF LastBy
<1>5. ASSUME NEW r \in LastBy(B \cup T, t) PROVE r \in StateAt(X)
  <2>1. r \in B \cup T /\ r.from <= t
    BY DEF LastBy
  <2>2. \A s \in B \cup T : ~(s.id = r.id /\ s.from > r.from /\ s.from <= t)
    BY DEF LastBy
  <2>3. r \in X
    BY <2>1, <2>2 DEF LastBy
  <2>4. ASSUME NEW s \in X, s.id = r.id, IsNewer(s, r) PROVE FALSE
    <3>1. s.from > r.from
      BY <1>1, <1>3, <2>1, <2>4, OrdersAgree
    <3> QED BY <1>3, <2>2, <2>4, <3>1
  <2> HIDE DEF X
  <2> QED BY <2>3, <2>4 DEF StateAt
<1> HIDE DEF X
<1>6. StateAt(X) = LastBy(B \cup T, t)
  BY <1>4, <1>5
<1> QED BY <1>2, <1>6 DEF X

(* Nothing that was logged is missing from the files. *)
LEMMA StoredIsAll ==
  ASSUME HistoryInv
  PROVE  BaseRows \cup TierRows = AllRows
<1>1. TypeOK /\ NothingIsLost
  BY DEF HistoryInv
<1>2. BaseRows \cup TierRows \subseteq AllRows
  BY <1>1, RowIsLogged DEF AllRows
<1>3. ASSUME NEW k \in DOMAIN log PROVE log[k].rows \subseteq BaseRows \cup TierRows
  <2>1. /\ base \in Seq(DOMAIN log) /\ hour \in Seq(DOMAIN log)
        /\ day \in Seq(DOMAIN log) /\ week \in Seq(DOMAIN log)
    BY <1>1 DEF TypeOK
  <2>2. Copies(k, base \o hour \o day \o week) # 0
    BY <1>1 DEF NothingIsLost
  <2>3. Copies(k, base \o hour \o day \o week)
          = Copies(k, base) + Copies(k, hour) + Copies(k, day) + Copies(k, week)
    BY <2>1, CopiesInAll
  <2>4. \/ Copies(k, base) # 0 \/ Copies(k, hour) # 0
        \/ Copies(k, day) # 0 \/ Copies(k, week) # 0
    BY <2>2, <2>3
  <2>5. ASSUME NEW s, Copies(k, s) # 0 PROVE log[k].rows \subseteq Stored(s)
    <3>1. {j \in DOMAIN s : s[j] = k} # {}
      BY <2>5, FS_EmptySet DEF Copies
    <3>2. k \in Range(s)
      BY <3>1 DEF Range
    <3> QED BY <3>2 DEF Stored
  <2> QED BY <2>4, <2>5 DEF BaseRows, TierRows
<1> QED BY <1>2, <1>3 DEF AllRows

LEMMA AllRowsTyped ==
  ASSUME TypeOK
  PROVE  AllRows \in SUBSET Rows
<1>1. ASSUME NEW k \in DOMAIN log PROVE log[k].rows \in SUBSET Rows
  <2>1. log[k] \in Entries
    BY ElementOfSeq, LenProperties DEF TypeOK, Entries
  <2> QED BY <2>1 DEF Entries
<1> QED BY <1>1 DEF AllRows

(* A read by id at t returns the last row of each element asked for. *)
LEMMA RawIsLast ==
  ASSUME HistoryInv, OneAtATime(AllRows), NEW ids, NEW t \in Nat
  PROVE  RawAt(ids, t) = {r \in LastBy(AllRows, t) : r.id \in ids}
<1> DEFINE B == Of(ids, BaseRows)
           T == Of(ids, TierRows)
<1>1. BaseRows \cup TierRows = AllRows /\ AllRows \in SUBSET Rows
  BY StoredIsAll, AllRowsTyped DEF HistoryInv
<1>2. B \cup T = {r \in AllRows : r.id \in ids}
  BY <1>1 DEF Of
<1>3. B \in SUBSET Rows /\ T \in SUBSET Rows /\ OneAtATime(B \cup T)
  BY <1>1, <1>2 DEF OneAtATime, Of
<1>4. LastBy(B \cup T, t) = {r \in LastBy(AllRows, t) : r.id \in ids}
  BY <1>2 DEF LastBy
<1>5. RawAt(ids, t) = StateAt(Valid(B, t) \cup {r \in T : r.from <= t})
  BY DEF RawAt
<1> HIDE DEF B, T
<1> QED BY <1>3, <1>4, <1>5, RankedIsLast

-----------------------------------------------------------------------------
(* The log stays in order. *)

LEMMA BatchRowIs ==
  ASSUME NEW b, NEW t, NEW r \in HistoryBatch(b, t)
  PROVE  \/ \E x \in DOMAIN b : \E j \in DOMAIN b[x] : r = OwnRow(b, x, j) /\ r.id = x
         \/ \E i \in Touched(DOMAIN b) : r = MinorRow(b, i, t) /\ r.id = i
<1>1. CASE r \in OwnRows(b)
  <2>1. PICK x \in DOMAIN b : \E j \in DOMAIN b[x] : r = OwnRow(b, x, j)
    BY <1>1 DEF OwnRows
  <2>2. PICK j \in DOMAIN b[x] : r = OwnRow(b, x, j)
    BY <2>1
  <2>3. r.id = x
    BY <2>2 DEF OwnRow
  <2> QED BY <2>2, <2>3
<1>2. CASE r \in MinorRows(b, t)
  <2>1. PICK i \in Touched(DOMAIN b) : r = MinorRow(b, i, t)
    BY <1>2 DEF MinorRows
  <2>2. r.id = i
    BY <2>1 DEF MinorRow
  <2> QED BY <2>1, <2>2
<1> QED BY <1>1, <1>2 DEF HistoryBatch

(* A batch has no two rows of an element that begin at the same instant. *)
LEMMA BatchOneAtATime ==
  ASSUME now \in Nat, NEW t \in Nat, NEW b \in Batches(t)
  PROVE  OneAtATime(HistoryBatch(b, t))
<1> SUFFICES ASSUME NEW r \in HistoryBatch(b, t), NEW s \in HistoryBatch(b, t),
                    r.id = s.id, r.from = s.from
             PROVE  r = s
  BY DEF OneAtATime
<1>1. CASE r.id \in DOMAIN b
  <2> DEFINE x == r.id
  <2>1. PICK j \in DOMAIN b[x] : r = OwnRow(b, x, j)
    BY <1>1, BatchRowIs, TouchedFacts
  <2>2. PICK l \in DOMAIN b[x] : s = OwnRow(b, x, l)
    BY <1>1, BatchRowIs, TouchedFacts
  <2>3. b[x][j].from = b[x][l].from
    BY <2>1, <2>2 DEF OwnRow
  <2>4. IsHistoryOf(b[x], t)
    BY <1>1, BatchFacts
  <2>5. j \in Int /\ l \in Int /\ b[x][j].from \in Int
    BY <2>4 DEF IsHistoryOf
  <2>6. j = l
    <3>1. ~(j < l) /\ ~(l < j)
      BY <2>3, <2>4, <2>5 DEF IsHistoryOf
    <3> QED BY <2>5, <3>1
  <2> QED BY <2>1, <2>2, <2>6
<1>2. CASE r.id \notin DOMAIN b
  BY <1>2, BatchRowIs
<1> QED BY <1>1, <1>2

(* What a run adds to the rows. *)
LEMMA RunAddsRows ==
  ASSUME HistoryInv, LogInOrder, NEW t \in Nat, t > now, NEW b \in Batches(t), RunOf(t, b)
  PROVE  /\ AllRows' = AllRows \cup HistoryBatch(b, t)
         /\ \A r \in AllRows : r \in Rows /\ r.from <= now
         /\ \A r \in HistoryBatch(b, t) : r \in Rows /\ r.from > now /\ r.from <= t
         /\ OneAtATime(AllRows \cup HistoryBatch(b, t))
<1>1. TypeOK /\ MinorsBounded /\ now \in Nat
  BY DEF HistoryInv, TypeOK
<1> DEFINE e == [time |-> t, rows |-> HistoryBatch(b, t)]
<1>2. \A r \in HistoryBatch(b, t) : r \in Rows /\ r.from > now /\ r.from <= t
  <2>1. \A r \in HistoryBatch(b, t) : r \in Rows /\ r.from \in (now + 1)..t
    BY <1>1, BatchRows
  <2> QED BY <1>1, <2>1
<1>3. e \in Entries /\ log' = Append(log, e) /\ e.rows = HistoryBatch(b, t)
  BY <1>2 DEF Entries, RunOf
<1> HIDE DEF e
<1>4. /\ Len(log) \in Nat /\ DOMAIN log = 1..Len(log) /\ DOMAIN log' = 1..(Len(log) + 1)
      /\ \A k \in DOMAIN log : log'[k] = log[k]
      /\ log'[Len(log) + 1] = e
  BY <1>1, <1>3, LogGrows
<1>5. AllRows' = AllRows \cup HistoryBatch(b, t)
  <2>1. \A k \in DOMAIN log' : k \in DOMAIN log \/ k = Len(log) + 1
    BY <1>4
  <2>2. DOMAIN log \subseteq DOMAIN log' /\ Len(log) + 1 \in DOMAIN log'
    BY <1>4
  <2> QED BY <1>3, <1>4, <2>1, <2>2 DEF AllRows
<1>6. \A r \in AllRows : r \in Rows /\ r.from <= now
  <2> SUFFICES ASSUME NEW k \in DOMAIN log, NEW r \in log[k].rows PROVE r \in Rows /\ r.from <= now
    BY DEF AllRows
  <2>1. log[k] \in Entries
    BY <1>1, <1>4, ElementOfSeq DEF TypeOK, Entries
  <2>2. r \in Rows /\ r.from \in Nat /\ log[k].time \in Nat
    BY <2>1 DEF Entries, Rows
  <2>3. r.from <= log[k].time /\ log[k].time <= now
    BY DEF LogInOrder
  <2> QED BY <1>1, <2>2, <2>3
<1>7. OneAtATime(AllRows \cup HistoryBatch(b, t))
  <2>1. OneAtATime(AllRows) /\ OneAtATime(HistoryBatch(b, t))
    BY <1>1, BatchOneAtATime DEF LogInOrder
  <2>2. ASSUME NEW r \in AllRows, NEW s \in HistoryBatch(b, t) PROVE r.from # s.from
    <3>1. r.from \in Nat /\ s.from \in Nat /\ r.from <= now /\ s.from > now
      BY <1>2, <1>6 DEF Rows
    <3> QED BY <1>1, <3>1
  <2> QED BY <2>1, <2>2 DEF OneAtATime
<1> QED BY <1>2, <1>5, <1>6, <1>7

(* A batch stamps nothing with a time after its own. *)
LEMMA ResolvedStamp ==
  ASSUME CurTyped, now \in Nat, \A i \in Ids : cur[i].stamp <= now,
         NEW t \in Nat, t > now, NEW b \in Batches(t)
  PROVE  \A i \in Ids : Resolved(b)[i].stamp <= t
<1> SUFFICES ASSUME NEW i \in Ids PROVE Resolved(b)[i].stamp <= t
  OBVIOUS
<1>1. cur[i].stamp <= now /\ cur[i] \in [version : Nat, stamp : Nat, live : BOOLEAN, cell : AnyCell]
  BY DEF CurTyped
<1>2. CASE i \in DOMAIN b
  <2>1. Resolved(b)[i].stamp = Final(b[i]).from
    BY <1>2 DEF Resolved
  <2> QED BY <1>2, <2>1, FinalFacts
<1>3. CASE i \notin DOMAIN b
  <2>1. Resolved(b)[i].stamp = cur[i].stamp
    BY <1>1, <1>3 DEF Resolved
  <2> QED BY <1>1, <2>1
<1> QED BY <1>2, <1>3

LEMMA RunKeepsOrder ==
  ASSUME HistoryInv, LogInOrder, NEW t \in Nat, t > now, NEW b \in Batches(t), RunOf(t, b)
  PROVE  LogInOrder'
<1>1. TypeOK /\ MinorsBounded /\ now \in Nat /\ now' = t /\ cur' = Resolved(b) /\ CurTyped
  BY DEF HistoryInv, TypeOK, RunOf, CurTyped, AnyCell
<1>2. /\ AllRows' = AllRows \cup HistoryBatch(b, t)
      /\ \A r \in HistoryBatch(b, t) : r \in Rows /\ r.from > now /\ r.from <= t
      /\ OneAtATime(AllRows \cup HistoryBatch(b, t))
  BY RunAddsRows
<1> DEFINE e == [time |-> t, rows |-> HistoryBatch(b, t)]
<1>3. e \in Entries /\ log' = Append(log, e) /\ e.rows = HistoryBatch(b, t) /\ e.time = t
  BY <1>2 DEF Entries, RunOf
<1> HIDE DEF e
<1>4. /\ Len(log) \in Nat /\ DOMAIN log = 1..Len(log) /\ DOMAIN log' = 1..(Len(log) + 1)
      /\ \A k \in DOMAIN log : log'[k] = log[k]
      /\ log'[Len(log) + 1] = e
  BY <1>1, <1>3, LogGrows
<1>5. \A k \in DOMAIN log : log[k].time \in Nat /\ log[k].time <= now
  <2>1. \A k \in DOMAIN log : log[k] \in Entries
    BY <1>1, <1>4, ElementOfSeq DEF TypeOK, Entries
  <2> QED BY <2>1 DEF Entries, LogInOrder
<1>6. ASSUME NEW k \in DOMAIN log'
      PROVE  /\ log'[k].time <= t
             /\ \A r \in log'[k].rows : r.from <= log'[k].time
             /\ \A l \in 1..(k - 1) : log'[l].time < log'[k].time
                                      /\ \A r \in log'[k].rows : log'[l].time < r.from
  <2>1. CASE k \in DOMAIN log
    <3>1. \A l \in 1..(k - 1) : l \in DOMAIN log
      BY <1>4, <2>1
    <3>2. log'[k] = log[k] /\ \A l \in 1..(k - 1) : log'[l] = log[l]
      BY <1>4, <2>1, <3>1
    <3>3. log'[k].time <= t
      BY <1>1, <1>5, <2>1, <3>2
    <3> QED BY <2>1, <3>2, <3>3 DEF LogInOrder
  <2>2. CASE k = Len(log) + 1
    <3>1. log'[k] = e
      BY <1>4, <2>2
    <3>2. \A l \in 1..(k - 1) : l \in DOMAIN log /\ log'[l] = log[l]
      BY <1>4, <2>2
    <3>3. ASSUME NEW l \in 1..(k - 1)
          PROVE  log'[l].time < t /\ \A r \in e.rows : log'[l].time < r.from
      <4>1. log'[l].time \in Nat /\ log'[l].time <= now
        BY <1>5, <3>2
      <4>2. \A r \in e.rows : r.from \in Nat /\ r.from > now
        BY <1>2, <1>3 DEF Rows
      <4> QED BY <1>1, <4>1, <4>2
    <3> QED BY <1>2, <1>3, <3>1, <3>3
  <2> QED BY <1>4, <2>1, <2>2
<1>7. \A i \in Ids : Resolved(b)[i].stamp <= t
  BY <1>1, ResolvedStamp DEF LogInOrder
<1> QED BY <1>1, <1>2, <1>6, <1>7 DEF LogInOrder

(* The last rows by an instant before the run stay the last rows by it. *)
LEMMA LastIsStable ==
  ASSUME NEW rows, NEW new, NEW u \in Nat, NEW n \in Nat, u <= n,
         \A r \in new : r.from \in Nat /\ r.from > n
  PROVE  LastBy(rows \cup new, u) = LastBy(rows, u)
<1>1. \A r \in new : ~(r.from <= u)
  OBVIOUS
<1> QED BY <1>1 DEF LastBy

(* Time alone makes no other row the last. *)
LEMMA LastBeyond ==
  ASSUME NEW rows, NEW u \in Nat, NEW v \in Nat, u <= v,
         \A r \in rows : r.from \in Nat /\ r.from <= u
  PROVE  LastBy(rows, v) = LastBy(rows, u)
<1>1. \A r \in rows : r.from <= u /\ r.from <= v
  OBVIOUS
<1> QED BY <1>1 DEF LastBy

(* The last rows after a run: the batch's, and what was last before. *)
LEMMA RunLast ==
  ASSUME HistoryInv, LogInOrder, NEW t \in Nat, t > now, NEW b \in Batches(t), RunOf(t, b),
         NEW i \in Ids
  PROVE  /\ i \in DOMAIN b => OwnRow(b, i, Len(b[i])) \in LastBy(AllRows', t)
         /\ i \in Touched(DOMAIN b) => MinorRow(b, i, t) \in LastBy(AllRows', t)
         /\ i \notin DOMAIN b /\ i \notin Touched(DOMAIN b) =>
              \A r : r.id = i => (r \in LastBy(AllRows', t) <=> r \in LastBy(AllRows, now))
<1> DEFINE H == HistoryBatch(b, t)
<1>1. /\ AllRows' = AllRows \cup H
      /\ \A r \in AllRows : r \in Rows /\ r.from <= now
      /\ \A r \in H : r \in Rows /\ r.from > now /\ r.from <= t
  BY RunAddsRows
<1>2. now \in Nat /\ \A r \in AllRows \cup H : r.from \in Nat
  BY <1>1 DEF HistoryInv, TypeOK, Rows
<1>3. ASSUME NEW r \in H, \A s \in H : s.id = r.id => s.from <= r.from
      PROVE  r \in LastBy(AllRows', t)
  <2>1. ASSUME NEW s \in AllRows \cup H, s.id = r.id PROVE ~(s.from > r.from)
    <3>1. r.from \in Nat /\ s.from \in Nat /\ r.from > now
      BY <1>1, <1>2
    <3> QED BY <1>1, <1>2, <1>3, <2>1, <3>1
  <2> QED BY <1>1, <2>1 DEF LastBy
<1>4. ASSUME i \in DOMAIN b PROVE OwnRow(b, i, Len(b[i])) \in LastBy(AllRows', t)
  <2> DEFINE f == OwnRow(b, i, Len(b[i]))
  <2>1. IsHistoryOf(b[i], t) /\ Len(b[i]) \in DOMAIN b[i]
    BY <1>2, <1>4, BatchFacts, FinalFacts
  <2>2. f \in H /\ f.id = i /\ f.from = b[i][Len(b[i])].from
    BY <1>4, <2>1 DEF HistoryBatch, OwnRows, OwnRow
  <2>3. ASSUME NEW s \in H, s.id = i PROVE s.from <= f.from
    <3>1. PICK j \in DOMAIN b[i] : s = OwnRow(b, i, j)
      BY <1>4, <2>3, BatchRowIs, TouchedFacts
    <3>2. s.from = b[i][j].from
      BY <3>1 DEF OwnRow
    <3>3. j = Len(b[i]) \/ j < Len(b[i])
      BY <2>1 DEF IsHistoryOf
    <3>4. CASE j = Len(b[i])
      BY <1>2, <2>2, <3>2, <3>4
    <3>5. CASE j < Len(b[i])
      <4>1. b[i][j].from < b[i][Len(b[i])].from
        BY <2>1, <3>5 DEF IsHistoryOf
      <4>2. s.from \in Nat /\ f.from \in Nat
        BY <1>2, <2>2
      <4> QED BY <2>2, <3>2, <4>1, <4>2
    <3> QED BY <3>3, <3>4, <3>5
  <2> HIDE DEF f
  <2>4. f \in LastBy(AllRows', t)
    BY <1>3, <2>2, <2>3
  <2> QED BY <2>4 DEF f
<1>5. ASSUME i \in Touched(DOMAIN b) PROVE MinorRow(b, i, t) \in LastBy(AllRows', t)
  <2> DEFINE f == MinorRow(b, i, t)
  <2>1. f \in H /\ f.id = i
    BY <1>5 DEF HistoryBatch, MinorRows, MinorRow
  <2>2. i \notin DOMAIN b
    BY <1>5, TouchedFacts
  <2>3. ASSUME NEW s \in H, s.id = i PROVE s = f
    BY <2>2, <2>3, BatchRowIs
  <2>4. f.from <= f.from
    BY <1>2, <2>1
  <2> HIDE DEF f
  <2>5. f \in LastBy(AllRows', t)
    BY <1>3, <2>1, <2>3, <2>4
  <2> QED BY <2>5 DEF f
<1>6. ASSUME i \notin DOMAIN b, i \notin Touched(DOMAIN b), NEW r, r.id = i
      PROVE  r \in LastBy(AllRows', t) <=> r \in LastBy(AllRows, now)
  <2>1. \A s \in H : s.id # i
    BY <1>6, BatchRowIs
  <2>2. \A s \in AllRows : s.from <= t
    BY <1>1, <1>2
  <2> HIDE DEF H
  <2> QED BY <1>1, <1>6, <2>1, <2>2 DEF LastBy
<1> QED BY <1>4, <1>5, <1>6

(* The state a run resolves to. *)
LEMMA ResolvedIs ==
  ASSUME CurTyped, NEW b, NEW i \in Ids
  PROVE  /\ i \in DOMAIN b =>
              /\ Resolved(b)[i].version = cur[i].version + Len(b[i])
              /\ Resolved(b)[i].live = Final(b[i]).live
              /\ Resolved(b)[i].cell = NewCell(b, i)
         /\ i \notin DOMAIN b =>
              /\ Resolved(b)[i].version = cur[i].version
              /\ Resolved(b)[i].live = cur[i].live
         /\ i \notin DOMAIN b /\ i \in Touched(DOMAIN b) => Resolved(b)[i].cell = NewCell(b, i)
         /\ i \notin DOMAIN b /\ i \notin Touched(DOMAIN b) => Resolved(b)[i] = cur[i]
<1>1. cur[i] \in [version : Nat, stamp : Nat, live : BOOLEAN, cell : AnyCell]
  BY DEF CurTyped
<1>2. CASE i \in DOMAIN b
  BY <1>2 DEF Resolved, LiveAfter
<1>3. CASE i \notin DOMAIN b
  BY <1>1, <1>3 DEF Resolved
<1> QED BY <1>2, <1>3

(* After a run the last rows are the current state. *)
LEMMA RunKeepsCurrent ==
  ASSUME HistoryInv, LogInOrder, LastIsCurrent,
         NEW t \in Nat, t > now, NEW b \in Batches(t), RunOf(t, b)
  PROVE  LastIsCurrent'
<1>1. /\ now \in Nat /\ now' = t /\ cur' = Resolved(b) /\ CurTyped /\ started
  BY DEF HistoryInv, TypeOK, RunOf, CurTyped, AnyCell
<1>2. AllRows' \in SUBSET Rows /\ OneAtATime(AllRows')
  BY RunAddsRows
<1> SUFFICES ASSUME NEW i \in Ids
             PROVE  /\ \A r \in AllRows' :
                         r.id = i /\ r \in LastBy(AllRows', t) =>
                           /\ r.live = Resolved(b)[i].live
                           /\ r.live => r.version = Resolved(b)[i].version
                                       /\ r.cell = Resolved(b)[i].cell
                    /\ Resolved(b)[i].live => \E r \in LastBy(AllRows', t) : r.id = i
  <2>1. LastBy(AllRows, now)' = LastBy(AllRows', t)
    BY <1>1 DEF LastBy
  <2> QED BY <1>1, <2>1 DEF LastIsCurrent
<1>3. CASE i \in DOMAIN b
  <2> DEFINE f == OwnRow(b, i, Len(b[i]))
  <2>1. f \in LastBy(AllRows', t)
    BY <1>3, RunLast
  <2>2. /\ f.id = i /\ f.live = Final(b[i]).live /\ f.version = cur[i].version + Len(b[i])
        /\ f.live => f.cell = NewCell(b, i)
    BY DEF OwnRow, Final
  <2> HIDE DEF f
  <2>3. \A r \in LastBy(AllRows', t) : r.id = i => r = f
    BY <1>2, <2>1, <2>2, LastIsUnique
  <2> QED BY <1>1, <1>3, <2>1, <2>2, <2>3, ResolvedIs
<1>4. CASE i \in Touched(DOMAIN b)
  <2> DEFINE f == MinorRow(b, i, t)
  <2>1. f \in LastBy(AllRows', t) /\ i \notin DOMAIN b /\ cur[i].live
    BY <1>4, RunLast, TouchedFacts
  <2>2. f.id = i /\ f.live = TRUE /\ f.version = cur[i].version /\ f.cell = NewCell(b, i)
    BY DEF MinorRow
  <2> HIDE DEF f
  <2>3. \A r \in LastBy(AllRows', t) : r.id = i => r = f
    BY <1>2, <2>1, <2>2, LastIsUnique
  <2>4. cur[i].live = TRUE
    BY <1>1, <2>1 DEF CurTyped
  <2> QED BY <1>1, <1>4, <2>1, <2>2, <2>3, <2>4, ResolvedIs
<1>5. CASE i \notin DOMAIN b /\ i \notin Touched(DOMAIN b)
  <2>1. \A r : r.id = i => (r \in LastBy(AllRows', t) <=> r \in LastBy(AllRows, now))
    BY <1>5, RunLast
  <2>2. Resolved(b)[i] = cur[i]
    BY <1>1, <1>5, ResolvedIs
  <2>3. \A r \in LastBy(AllRows, now) : r \in AllRows
    BY DEF LastBy
  <2> QED BY <1>1, <2>1, <2>2, <2>3 DEF LastIsCurrent
<1> QED BY <1>3, <1>4, <1>5
(* After a run a minor version still follows the own version it names. *)
LEMMA RunKeepsOwn ==
  ASSUME HistoryInv, LogInOrder, MinorsFollowOwn,
         NEW t \in Nat, t > now, NEW b \in Batches(t), RunOf(t, b)
  PROVE  MinorsFollowOwn'
<1> DEFINE H == HistoryBatch(b, t)
           Own == OwnRowsOnly(AllRows)
           NewOwn == OwnRowsOnly(AllRows')
<1>1. /\ TypeOK /\ MinorsBounded /\ now \in Nat /\ now' = t /\ cur' = Resolved(b)
      /\ CurTyped /\ started
  BY DEF HistoryInv, TypeOK, RunOf, CurTyped, AnyCell
<1>2. /\ AllRows' = AllRows \cup H
      /\ \A r \in AllRows : r \in Rows /\ r.from <= now
      /\ \A r \in H : r \in Rows /\ r.from > now /\ r.from <= t
  BY RunAddsRows
<1>3. \A r \in AllRows \cup H : r.from \in Nat
  BY <1>2 DEF Rows
<1>4. \A i \in Touched(DOMAIN b) : MinorRow(b, i, t).minor # 0
  <2> SUFFICES ASSUME NEW i \in Touched(DOMAIN b) PROVE MinorRow(b, i, t).minor # 0
    OBVIOUS
  <2>1. MinorRow(b, i, t).minor \in 1..(Len(log) + 1)
    BY <1>1, MinorRowFacts
  <2> QED BY <2>1
<1>5. ASSUME NEW i, i \notin DOMAIN b, NEW r \in LastBy(Own, now), r.id = i,
             NEW u \in Nat, u >= now
      PROVE  r \in LastBy(NewOwn, u)
  <2>1. \A s \in H : s.id = i => s.minor # 0
    BY <1>4, <1>5, BatchRowIs
  <2>2. r \in AllRows /\ r.minor = 0 /\ r.from <= u
    <3>1. r \in AllRows /\ r.minor = 0
      BY DEF LastBy, OwnRowsOnly
    <3>2. r.from \in Nat /\ r.from <= now
      BY <1>2, <1>3, <3>1
    <3> QED BY <1>1, <1>5, <3>1, <3>2
  <2>3. ASSUME NEW s \in NewOwn, s.id = r.id, s.from > r.from PROVE FALSE
    <3>1. s \in AllRows /\ s.minor = 0
      BY <1>2, <1>5, <2>1, <2>3 DEF OwnRowsOnly
    <3>2. s \in Own /\ s.from <= now
      BY <1>2, <3>1 DEF OwnRowsOnly
    <3> QED BY <2>3, <3>2 DEF LastBy
  <2>4. r \in NewOwn
    BY <1>2, <2>2 DEF OwnRowsOnly
  <2> HIDE DEF NewOwn
  <2> QED BY <2>2, <2>3, <2>4 DEF LastBy
<1>6. ASSUME NEW i \in Ids, cur[i].live
      PROVE  \E r \in LastBy(Own, now) : r.id = i /\ r.version = cur[i].version
  BY <1>1, <1>6 DEF MinorsFollowOwn
<1>7. ASSUME NEW i \in Ids, Resolved(b)[i].live
      PROVE  \E r \in LastBy(NewOwn, t) : r.id = i /\ r.version = Resolved(b)[i].version
  <2>1. CASE i \in DOMAIN b
    <3> DEFINE f == OwnRow(b, i, Len(b[i]))
    <3>1. f \in LastBy(AllRows', t)
      BY <2>1, RunLast
    <3>2. f.id = i /\ f.minor = 0 /\ f.version = Resolved(b)[i].version
      BY <1>1, <2>1, ResolvedIs DEF OwnRow
    <3> HIDE DEF f
    <3>3. f \in LastBy(NewOwn, t)
      BY <3>1, <3>2 DEF LastBy, OwnRowsOnly
    <3> QED BY <3>2, <3>3
  <2>2. CASE i \notin DOMAIN b
    <3>1. cur[i].live /\ cur[i].version = Resolved(b)[i].version
      BY <1>1, <1>7, <2>2, ResolvedIs
    <3>2. PICK r \in LastBy(Own, now) : r.id = i /\ r.version = cur[i].version
      BY <1>6, <3>1
    <3>3. r \in LastBy(NewOwn, t)
      BY <1>1, <1>5, <2>2, <3>2
    <3> QED BY <3>1, <3>2, <3>3
  <2> QED BY <2>1, <2>2
<1>8. ASSUME NEW m \in AllRows', m.minor # 0
      PROVE  \E r \in LastBy(NewOwn, m.from) : r.id = m.id /\ r.version = m.version
  <2>1. CASE m \in AllRows
    <3>1. PICK r \in LastBy(Own, m.from) : r.id = m.id /\ r.version = m.version
      BY <1>8, <2>1 DEF MinorsFollowOwn
    <3>2. NewOwn = Own \cup {s \in H : s.minor = 0}
      BY <1>2 DEF OwnRowsOnly
    <3>3. /\ m.from \in Nat /\ m.from <= now
          /\ \A s \in {q \in H : q.minor = 0} : s.from \in Nat /\ s.from > now
      BY <1>2, <1>3, <2>1
    <3> HIDE DEF H, Own, NewOwn
    <3>4. LastBy(Own \cup {s \in H : s.minor = 0}, m.from) = LastBy(Own, m.from)
      BY <1>1, <3>3, LastIsStable
    <3> QED BY <3>1, <3>2, <3>4
  <2>2. CASE m \in H
    <3>1. PICK i \in Touched(DOMAIN b) : m = MinorRow(b, i, t)
      <4>1. \A x, j : OwnRow(b, x, j).minor = 0
        BY DEF OwnRow
      <4> QED BY <1>8, <2>2, <4>1, BatchRowIs
    <3>2. i \in Ids /\ i \notin DOMAIN b /\ cur[i].live
      BY TouchedFacts
    <3>3. m.id = i /\ m.version = cur[i].version /\ m.from \in Nat /\ m.from >= now
      <4>1. m.from \in Nat /\ m.from > now
        BY <1>2, <1>3, <2>2
      <4> QED BY <1>1, <3>1, <4>1 DEF MinorRow
    <3>4. PICK r \in LastBy(Own, now) : r.id = i /\ r.version = cur[i].version
      BY <1>6, <3>2
    <3>5. r \in LastBy(NewOwn, m.from)
      BY <1>5, <3>2, <3>3, <3>4
    <3> QED BY <3>3, <3>4, <3>5
  <2> QED BY <1>2, <2>1, <2>2
<1>9. LastBy(OwnRowsOnly(AllRows), now)' = LastBy(NewOwn, t)
  BY <1>1 DEF LastBy, OwnRowsOnly
<1>10. \A m : LastBy(OwnRowsOnly(AllRows), m)' = LastBy(NewOwn, m)
  BY DEF LastBy, OwnRowsOnly
<1> QED BY <1>1, <1>7, <1>8, <1>9, <1>10 DEF MinorsFollowOwn
-----------------------------------------------------------------------------
(* A run leaves no ghosts in the cells. *)

(* The spatial copy of a row is the row or the trace of its move. *)
LEMMA SpatialRowIs ==
  ASSUME NEW rows \in SUBSET Rows, NEW q \in SpatialRows(rows)
  PROVE  /\ q \in Rows
         /\ q.live => q \in rows
         /\ \E r \in rows : q.id = r.id /\ q.from = r.from /\ q.version = r.version
<1>1. CASE q \in rows
  BY <1>1
<1>2. CASE q \notin rows
  <2>1. PICK r \in rows : q = [r EXCEPT !.cell = r.prev, !.live = FALSE]
    BY <1>2 DEF SpatialRows
  <2>2. r \in Rows
    OBVIOUS
  <2>3. q \in Rows /\ q.live = FALSE /\ q.id = r.id /\ q.from = r.from /\ q.version = r.version
    BY <2>1, <2>2 DEF Rows
  <2> QED BY <2>3
<1> QED BY <1>1, <1>2

LEMMA SpatialUnion ==
  ASSUME NEW A, NEW B
  PROVE  SpatialRows(A \cup B) = SpatialRows(A) \cup SpatialRows(B)
BY DEF SpatialRows

(* A row leaves a row of its instant in the cell it is in and in the cell  *)
(* it left.                                                                *)
LEMMA SpatialLeft ==
  ASSUME NEW rows \in SUBSET Rows, NEW r \in rows, NEW c \in Places, c = r.cell \/ c = r.prev
  PROVE  \E q \in InCell(SpatialRows(rows), c) : q.id = r.id /\ q.from = r.from
<1>1. CASE c = r.cell
  <2>1. r \in InCell(SpatialRows(rows), c)
    BY <1>1 DEF InCell, SpatialRows
  <2> QED BY <2>1
<1>2. CASE c # r.cell
  <2> DEFINE q == [r EXCEPT !.cell = r.prev, !.live = FALSE]
  <2>1. r.prev = c /\ r.prev # r.cell /\ r.prev # NoCell
    BY <1>2, HistoryAssumption
  <2>2. q \in SpatialRows(rows)
    BY <2>1 DEF SpatialRows
  <2>3. q.cell = c /\ q.id = r.id /\ q.from = r.from
    <3>1. r \in Rows
      OBVIOUS
    <3> QED BY <2>1, <3>1 DEF Rows
  <2> HIDE DEF q
  <2> QED BY <2>2, <2>3 DEF InCell
<1> QED BY <1>1, <1>2

(* NoGhosts holds at the present too. *)
LEMMA NoGhostsNow ==
  ASSUME HistoryInv, LogInOrder, NoGhosts, NEW c \in Places,
         NEW r \in LastBy(InCell(SpatialRows(AllRows), c), now), r.live
  PROVE  r \in LastBy(AllRows, now)
<1> DEFINE S == InCell(SpatialRows(AllRows), c)
           n == Len(log)
<1>1. TypeOK /\ now \in Nat /\ AllRows \in SUBSET Rows
  BY AllRowsTyped DEF HistoryInv, TypeOK
<1>2. Len(log) \in Nat /\ DOMAIN log = 1..Len(log)
  BY <1>1, LenProperties DEF TypeOK
<1>3. r \in AllRows
  BY <1>1, SpatialRowIs DEF LastBy, InCell
<1>4. PICK l \in DOMAIN log : r \in log[l].rows
  BY <1>3 DEF AllRows
<1>5. n \in DOMAIN log
  BY <1>2, <1>4
<1>6. \A k \in DOMAIN log : log[k].time \in Nat
  <2>1. \A k \in DOMAIN log : log[k] \in Entries
    BY <1>1, <1>2, ElementOfSeq DEF TypeOK, Entries
  <2> QED BY <2>1 DEF Entries
<1>7. \A k \in DOMAIN log : log[k].time <= log[n].time
  <2> SUFFICES ASSUME NEW k \in DOMAIN log PROVE log[k].time <= log[n].time
    OBVIOUS
  <2>1. CASE k = n
    BY <1>6, <2>1
  <2>2. CASE k # n
    <3>1. k \in 1..(n - 1)
      BY <1>2, <2>2
    <3>2. log[k].time < log[n].time
      BY <1>5, <3>1 DEF LogInOrder
    <3> QED BY <1>5, <1>6, <3>2
  <2> QED BY <2>1, <2>2
<1>8. \A s \in AllRows : s.from \in Nat /\ s.from <= log[n].time
  <2> SUFFICES ASSUME NEW k \in DOMAIN log, NEW s \in log[k].rows
               PROVE  s.from \in Nat /\ s.from <= log[n].time
    BY DEF AllRows
  <2>1. s \in AllRows
    BY DEF AllRows
  <2>2. s.from \in Nat /\ s.from <= log[k].time
    BY <1>1, <2>1 DEF LogInOrder, Rows
  <2> QED BY <1>5, <1>6, <1>7, <2>2
<1>9. \A s \in S : s.from \in Nat /\ s.from <= log[n].time
  BY <1>1, <1>8, SpatialRowIs DEF InCell
<1>10. log[n].time <= now /\ log[n].time \in Nat
  BY <1>5, <1>6 DEF LogInOrder
<1> HIDE DEF S
<1>11. LastBy(S, now) = LastBy(S, log[n].time) /\ LastBy(AllRows, now) = LastBy(AllRows, log[n].time)
  BY <1>1, <1>8, <1>9, <1>10, LastBeyond
<1> QED BY <1>5, <1>11 DEF NoGhosts, S
(* What a run writes of an element that was visible in a cell is seen in   *)
(* that cell: a last row in the cell that is older than the run's is dead. *)
LEMMA RunShowsMove ==
  ASSUME HistoryInv, LogInOrder, LastIsCurrent, NoGhosts,
         NEW t \in Nat, t > now, NEW b \in Batches(t), RunOf(t, b),
         NEW c \in Places, NEW r \in LastBy(InCell(SpatialRows(AllRows'), c), t), r.live,
         NEW f \in LastBy(AllRows', t), f.id = r.id,
         f.prev = PrevCell(f.id), f \in HistoryBatch(b, t)
  PROVE  r \in HistoryBatch(b, t) \/ r \in LastBy(AllRows', t)
<1> DEFINE H == HistoryBatch(b, t)
           S == InCell(SpatialRows(AllRows), c)
           N == InCell(SpatialRows(AllRows'), c)
<1>1. TypeOK /\ now \in Nat /\ CurTyped /\ started
  BY DEF HistoryInv, TypeOK, RunOf, CurTyped, AnyCell
<1>2. /\ AllRows' = AllRows \cup H
      /\ \A q \in AllRows : q \in Rows /\ q.from <= now
      /\ \A q \in H : q \in Rows /\ q.from > now /\ q.from <= t
  BY RunAddsRows
<1>3. AllRows' \in SUBSET Rows /\ AllRows \in SUBSET Rows
  BY <1>2
<1>4. r \in AllRows' /\ r.cell = c /\ r \in N
  BY <1>3, SpatialRowIs DEF LastBy, InCell
<1> SUFFICES ASSUME r \in AllRows, r \notin H PROVE FALSE
  BY <1>2, <1>4
<1>5. S \subseteq N /\ \A q \in S : q.from \in Nat /\ q.from <= now /\ q.from <= t
  <2>1. S \subseteq N
    BY <1>2, SpatialUnion DEF InCell
  <2>2. ASSUME NEW q \in S PROVE q.from \in Nat /\ q.from <= now
    <3>1. PICK p \in AllRows : q.from = p.from
      BY <1>3, SpatialRowIs DEF InCell
    <3> QED BY <1>2, <3>1 DEF Rows
  <2> QED BY <1>1, <2>1, <2>2
<1>6. r \in LastBy(S, now)
  <2>1. r \in S
    BY <1>4 DEF InCell, SpatialRows
  <2>2. \A s \in N : ~(s.id = r.id /\ s.from > r.from /\ s.from <= t)
    BY DEF LastBy
  <2> HIDE DEF S, N
  <2> QED BY <1>5, <2>1, <2>2 DEF LastBy
<1>7. r \in LastBy(AllRows, now)
  BY <1>6, NoGhostsNow
<1>8. r.id \in Ids /\ r \in Rows
  BY <1>2 DEF Rows
<1>9. cur[r.id].live /\ cur[r.id].cell = c
  BY <1>1, <1>4, <1>7, <1>8 DEF LastIsCurrent
<1>10. f.prev = c
  BY <1>9 DEF PrevCell
<1>11. PICK q \in N : q.id = f.id /\ q.from = f.from
  BY <1>3, <1>10, SpatialLeft DEF LastBy
<1>12. q.from > r.from /\ q.from <= t
  <2>1. f.from \in Nat /\ r.from \in Nat /\ f.from > now /\ r.from <= now /\ f.from <= t
    BY <1>2, <1>3 DEF Rows
  <2> QED BY <1>1, <1>11, <2>1
<1> QED BY <1>11, <1>12 DEF LastBy

LEMMA RunLeavesNoGhost ==
  ASSUME HistoryInv, LogInOrder, LastIsCurrent, NoGhosts,
         NEW t \in Nat, t > now, NEW b \in Batches(t), RunOf(t, b),
         NEW c \in Places, NEW r \in LastBy(InCell(SpatialRows(AllRows'), c), t), r.live
  PROVE  r \in LastBy(AllRows', t)
<1> DEFINE H == HistoryBatch(b, t)
           i == r.id
           N == InCell(SpatialRows(AllRows'), c)
<1>1. /\ TypeOK /\ now \in Nat /\ CurTyped /\ MinorsBounded
      /\ AllRows' \in SUBSET Rows /\ OneAtATime(AllRows') /\ AllRows' = AllRows \cup H
  BY RunAddsRows DEF HistoryInv, TypeOK, CurTyped, AnyCell
<1>2. r \in AllRows' /\ r.cell = c /\ i \in Ids /\ r.from \in Nat
  BY <1>1, SpatialRowIs DEF LastBy, InCell, Rows
<1>3. CASE i \in DOMAIN b
  <2> DEFINE f == OwnRow(b, i, Len(b[i]))
  <2>1. f \in LastBy(AllRows', t) /\ f.id = i /\ f.prev = PrevCell(f.id)
    BY <1>2, <1>3, RunLast DEF OwnRow
  <2>2. Len(b[i]) \in DOMAIN b[i] /\ Final(b[i]) = b[i][Len(b[i])] /\ Final(b[i]).live \in BOOLEAN
    BY <1>1, <1>3, FinalFacts
  <2>3. f \in H
    BY <1>3, <2>2 DEF HistoryBatch, OwnRows
  <2>4. f.cell = NewCell(b, i)
    <3>1. f.live = Final(b[i]).live
      BY <2>2 DEF OwnRow
    <3>2. f.cell = IF Final(b[i]).live THEN NewCell(b, i) ELSE PrevCell(i)
      BY <2>2 DEF OwnRow
    <3> QED BY <1>3, <3>2 DEF NewCell, LiveAfter
  <2> HIDE DEF f
  <2>5. CASE r \in H
    <3>1. PICK j \in DOMAIN b[i] : r = OwnRow(b, i, j)
      BY <1>3, <2>5, BatchRowIs, TouchedFacts
    <3>2. r.cell = NewCell(b, i)
      BY <3>1 DEF OwnRow
    <3>3. f \in N
      BY <1>2, <2>1, <2>4, <3>2 DEF InCell, SpatialRows, LastBy
    <3>4. ~(f.from > r.from) /\ f.from \in Nat
      BY <1>1, <2>1, <3>3 DEF LastBy, Rows
    <3>5. ASSUME NEW s \in AllRows', s.id = i, s.from > r.from, s.from <= t PROVE FALSE
      <4>1. ~(s.from > f.from) /\ s.from \in Nat
        BY <1>1, <2>1, <3>5 DEF LastBy, Rows
      <4> QED BY <1>2, <3>4, <3>5, <4>1
    <3>6. r.from <= t
      BY DEF LastBy
    <3> QED BY <1>2, <3>5, <3>6 DEF LastBy
  <2> QED BY <1>1, <1>2, <2>1, <2>3, <2>5, RunShowsMove
<1>4. CASE i \in Touched(DOMAIN b)
  <2> DEFINE f == MinorRow(b, i, t)
  <2>1. f \in LastBy(AllRows', t) /\ f.id = i /\ f.prev = PrevCell(f.id)
    BY <1>2, <1>4, RunLast DEF MinorRow
  <2>2. f \in H
    BY <1>4 DEF HistoryBatch, MinorRows
  <2>3. r \in H => r = f
    BY <1>4, BatchRowIs, TouchedFacts
  <2> HIDE DEF f
  <2> QED BY <1>1, <1>2, <2>1, <2>2, <2>3, RunShowsMove
<1>5. CASE i \notin DOMAIN b /\ i \notin Touched(DOMAIN b)
  <2>1. r \notin H
    BY <1>5, BatchRowIs
  <2>2. r \in AllRows
    BY <1>1, <1>2, <2>1
  <2> DEFINE S == InCell(SpatialRows(AllRows), c)
  <2>3. S \subseteq N /\ r \in S
    <3>1. S \subseteq N
      BY <1>1, SpatialUnion DEF InCell
    <3>2. r \in S
      BY <1>2, <2>2 DEF InCell, SpatialRows
    <3> QED BY <3>1, <3>2
  <2>4. \A q \in S : q.from \in Nat /\ q.from <= now /\ q.from <= t
    <3> SUFFICES ASSUME NEW q \in S PROVE q.from \in Nat /\ q.from <= now
      BY <1>1
    <3>1. PICK p \in AllRows : q.from = p.from
      BY <1>1, SpatialRowIs DEF InCell
    <3> QED BY <1>1, <3>1, RunAddsRows DEF Rows
  <2>5. \A s \in N : ~(s.id = r.id /\ s.from > r.from /\ s.from <= t)
    BY DEF LastBy
  <2> HIDE DEF S, N
  <2>6. r \in LastBy(S, now)
    BY <2>3, <2>4, <2>5 DEF LastBy
  <2>7. r \in LastBy(AllRows, now)
    BY <2>6, NoGhostsNow DEF S
  <2> QED BY <1>2, <1>5, <2>7, RunLast
<1> QED BY <1>3, <1>4, <1>5

LEMMA RunKeepsNoGhosts ==
  ASSUME HistoryInv, LogInOrder, LastIsCurrent, NoGhosts,
         NEW t \in Nat, t > now, NEW b \in Batches(t), RunOf(t, b)
  PROVE  NoGhosts'
<1> DEFINE H == HistoryBatch(b, t)
           e == [time |-> t, rows |-> H]
<1>1. /\ AllRows' = AllRows \cup H
      /\ \A r \in AllRows : r \in Rows /\ r.from <= now
      /\ \A r \in H : r \in Rows /\ r.from > now /\ r.from <= t
      /\ TypeOK /\ now \in Nat
  BY RunAddsRows DEF HistoryInv, TypeOK
<1>2. e \in Entries /\ log' = Append(log, e) /\ e.time = t
  BY <1>1 DEF Entries, RunOf
<1> HIDE DEF e
<1>3. /\ DOMAIN log = 1..Len(log) /\ DOMAIN log' = 1..(Len(log) + 1) /\ Len(log) \in Nat
      /\ \A k \in DOMAIN log : log'[k] = log[k]
      /\ log'[Len(log) + 1] = e
  BY <1>1, <1>2, LogGrows
<1> SUFFICES ASSUME NEW k \in DOMAIN log', NEW c \in Places,
                    NEW r \in LastBy(InCell(SpatialRows(AllRows'), c), log'[k].time), r.live
             PROVE  r \in LastBy(AllRows', log'[k].time)
  <2>1. \A c, u : LastBy(InCell(SpatialRows(AllRows), c), u)'
                   = LastBy(InCell(SpatialRows(AllRows'), c), u')
    BY DEF LastBy, InCell, SpatialRows
  <2>2. \A u : LastBy(AllRows, u)' = LastBy(AllRows', u')
    BY DEF LastBy
  <2> QED BY <2>1, <2>2 DEF NoGhosts
<1>4. CASE k = Len(log) + 1
  <2>1. log'[k].time = t
    BY <1>2, <1>3, <1>4
  <2> QED BY <2>1, RunLeavesNoGhost
<1>5. CASE k \in DOMAIN log
  <2> DEFINE S == InCell(SpatialRows(AllRows), c)
             D == InCell(SpatialRows(H), c)
             u == log[k].time
  <2>1. log'[k].time = u /\ u \in Nat /\ u <= now
    <3>1. log[k] \in Entries
      BY <1>1, <1>3, <1>5, ElementOfSeq DEF TypeOK, Entries
    <3> QED BY <1>3, <1>5, <3>1 DEF Entries, LogInOrder
  <2>2. InCell(SpatialRows(AllRows'), c) = S \cup D
    BY <1>1, SpatialUnion DEF InCell
  <2>3. \A q \in D : q.from \in Nat /\ q.from > now
    <3> SUFFICES ASSUME NEW q \in D PROVE q.from \in Nat /\ q.from > now
      OBVIOUS
    <3>1. H \in SUBSET Rows
      BY <1>1
    <3>2. PICK p \in H : q.from = p.from
      BY <3>1, SpatialRowIs DEF InCell
    <3> QED BY <1>1, <3>2 DEF Rows
  <2>4. \A q \in H : q.from \in Nat /\ q.from > now
    BY <1>1 DEF Rows
  <2> HIDE DEF S, D, H, u
  <2>5. LastBy(S \cup D, u) = LastBy(S, u) /\ LastBy(AllRows \cup H, u) = LastBy(AllRows, u)
    BY <1>1, <2>1, <2>3, <2>4, LastIsStable
  <2>6. r \in LastBy(S, u)
    BY <2>1, <2>2, <2>5
  <2>7. r \in LastBy(AllRows, u)
    BY <1>5, <2>6 DEF NoGhosts, S, u
  <2> QED BY <1>1, <2>1, <2>5, <2>7
<1> QED BY <1>3, <1>4, <1>5
-----------------------------------------------------------------------------
(* AtticInv is inductive. *)

LEMMA AtticRun == AtticInv /\ RunWithHistory => AtticInv'
<1> SUFFICES ASSUME AtticInv, RunWithHistory PROVE AtticInv'
  OBVIOUS
<1>1. HistoryInv /\ LogInOrder /\ LastIsCurrent /\ MinorsFollowOwn /\ NoGhosts /\ TypeOK
  BY DEF AtticInv, HistoryInv
<1>2. PICK t \in Nat : t > now /\ \E b \in Batches(t) : RunOf(t, b) /\ WriteDeltas(t, FALSE)
  BY <1>1, RunHasBatch
<1>3. PICK b \in Batches(t) : RunOf(t, b)
  BY <1>2
<1>4. HistoryInv'
  BY <1>1, RunWithHistoryKeeps
<1>5. LogInOrder' /\ LastIsCurrent' /\ MinorsFollowOwn' /\ NoGhosts'
  BY <1>1, <1>2, <1>3, RunKeepsOrder, RunKeepsCurrent, RunKeepsOwn, RunKeepsNoGhosts
<1> QED BY <1>4, <1>5 DEF AtticInv

(* Rows begin by the present. *)
LEMMA RowsHaveBegun ==
  ASSUME HistoryInv, LogInOrder
  PROVE  \A r \in AllRows : r \in Rows /\ r.from \in Nat /\ r.from <= now
<1> SUFFICES ASSUME NEW k \in DOMAIN log, NEW r \in log[k].rows
             PROVE  r \in Rows /\ r.from \in Nat /\ r.from <= now
  BY DEF AllRows
<1>1. TypeOK /\ now \in Nat
  BY DEF HistoryInv, TypeOK
<1>2. log[k] \in Entries
  BY <1>1, ElementOfSeq, LenProperties DEF TypeOK, Entries
<1>3. r \in Rows /\ r.from \in Nat /\ log[k].time \in Nat
  BY <1>2 DEF Entries, Rows
<1>4. r.from <= log[k].time /\ log[k].time <= now
  BY DEF LogInOrder
<1> QED BY <1>1, <1>3, <1>4

(* Only the log decides what a cell shows. *)
LEMMA GhostsUnchanged ==
  ASSUME NoGhosts, UNCHANGED log
  PROVE  NoGhosts'
<1>1. AllRows' = AllRows
  BY DEF AllRows
<1>2. \A c, u : LastBy(InCell(SpatialRows(AllRows), c), u)'
                 = LastBy(InCell(SpatialRows(AllRows'), c), u')
  BY DEF LastBy, InCell, SpatialRows
<1>3. \A u : LastBy(AllRows, u)' = LastBy(AllRows', u')
  BY DEF LastBy
<1> QED BY <1>1, <1>2, <1>3 DEF NoGhosts

LEMMA AtticRunEmpty == AtticInv /\ RunEmpty => AtticInv'
<1> SUFFICES ASSUME AtticInv, RunEmpty PROVE AtticInv'
  OBVIOUS
<1>1. HistoryInv /\ LogInOrder /\ LastIsCurrent /\ MinorsFollowOwn /\ NoGhosts /\ TypeOK
  BY DEF AtticInv, HistoryInv
<1>2. now' \in Nat /\ now' > now /\ now \in Nat
  BY <1>1, UpcomingIsLater DEF RunEmpty, TypeOK
<1>3. UNCHANGED <<cur, started, log>>
  BY DEF RunEmpty
<1>4. HistoryInv'
  BY <1>1, OtherRunsKeep
<1>5. AllRows' = AllRows
  BY <1>3 DEF AllRows
<1>6. \A r \in AllRows : r \in Rows /\ r.from \in Nat /\ r.from <= now
  BY <1>1, RowsHaveBegun
<1>7. LastBy(AllRows, now') = LastBy(AllRows, now)
  BY <1>2, <1>6, LastBeyond
<1>8. LastBy(OwnRowsOnly(AllRows), now') = LastBy(OwnRowsOnly(AllRows), now)
  <2> DEFINE P == OwnRowsOnly(AllRows)
  <2>1. \A r \in P : r.from \in Nat /\ r.from <= now
    BY <1>6 DEF OwnRowsOnly
  <2> HIDE DEF P
  <2>2. LastBy(P, now') = LastBy(P, now)
    BY <1>2, <2>1, LastBeyond
  <2> QED BY <2>2 DEF P
<1>9. /\ LastBy(AllRows, now)' = LastBy(AllRows', now')
      /\ LastBy(OwnRowsOnly(AllRows), now)' = LastBy(OwnRowsOnly(AllRows'), now')
      /\ \A m : LastBy(OwnRowsOnly(AllRows), m)' = LastBy(OwnRowsOnly(AllRows'), m')
  BY DEF LastBy, OwnRowsOnly
<1>10. LastIsCurrent'
  BY <1>1, <1>3, <1>5, <1>7, <1>9 DEF LastIsCurrent
<1>11. MinorsFollowOwn'
  BY <1>1, <1>3, <1>5, <1>8, <1>9 DEF MinorsFollowOwn
<1>12. LogInOrder'
  <2>1. \A k \in DOMAIN log : log[k].time \in Nat /\ log[k].time <= now
    <3>1. \A k \in DOMAIN log : log[k] \in Entries
      BY <1>1, ElementOfSeq, LenProperties DEF TypeOK, Entries
    <3> QED BY <1>1, <3>1 DEF Entries, LogInOrder
  <2>2. \A k \in DOMAIN log : log[k].time <= now'
    BY <1>2, <2>1
  <2>3. \A i \in Ids : cur[i].stamp \in Nat /\ cur[i].stamp <= now
    BY <1>1 DEF LogInOrder, TypeOK
  <2>4. \A i \in Ids : cur[i].stamp <= now'
    BY <1>2, <2>3
  <2> QED BY <1>1, <1>3, <1>5, <2>2, <2>4 DEF LogInOrder
<1>13. NoGhosts'
  BY <1>1, <1>3, GhostsUnchanged
<1> QED BY <1>4, <1>10, <1>11, <1>12, <1>13 DEF AtticInv

(* Without history there are no rows to be wrong. *)
LEMMA AtticRunBefore == AtticInv /\ RunWithoutHistory => AtticInv'
<1> SUFFICES ASSUME AtticInv, RunWithoutHistory PROVE AtticInv'
  OBVIOUS
<1>1. HistoryInv /\ LogInOrder /\ TypeOK /\ NoRowsYet /\ CurTyped /\ now \in Nat
  BY DEF AtticInv, HistoryInv, TypeOK, CurTyped, AnyCell
<1>2. PICK t \in Upcoming(MaxEarly) : \E b \in Batches(t) : cur' = Resolved(b) /\ now' = t
  BY DEF RunWithoutHistory
<1>3. PICK b \in Batches(t) : cur' = Resolved(b) /\ now' = t
  BY <1>2
<1>4. t \in Nat /\ t > now
  BY <1>1, UpcomingIsLater
<1>5. ~started' /\ log' = <<>>
  BY <1>1 DEF RunWithoutHistory, NoRowsYet
<1>6. HistoryInv'
  BY <1>1, OtherRunsKeep
<1>7. AllRows' = {} /\ DOMAIN log' = {}
  BY <1>5 DEF AllRows
<1>8. \A i \in Ids : cur'[i].stamp <= now'
  BY <1>1, <1>3, <1>4, ResolvedStamp DEF LogInOrder
<1>9. LogInOrder'
  BY <1>7, <1>8 DEF LogInOrder, OneAtATime
<1>10. LastIsCurrent' /\ MinorsFollowOwn' /\ NoGhosts'
  BY <1>5, <1>7 DEF LastIsCurrent, MinorsFollowOwn, NoGhosts
<1> QED BY <1>6, <1>9, <1>10 DEF AtticInv

(* The first base has one row of every element and records no move. *)
LEMMA CurrentRowIs ==
  ASSUME NEW r \in CurrentRows
  PROVE  /\ r.id \in Ids /\ cur[r.id].live
         /\ r = [id |-> r.id, version |-> cur[r.id].version, minor |-> 0, from |-> cur[r.id].stamp,
                 live |-> TRUE, cell |-> cur[r.id].cell, prev |-> NoCell]
<1>1. PICK i \in Ids :
        /\ cur[i].live
        /\ r = [id |-> i, version |-> cur[i].version, minor |-> 0, from |-> cur[i].stamp,
                live |-> TRUE, cell |-> cur[i].cell, prev |-> NoCell]
  BY DEF CurrentRows
<1>2. r.id = i
  BY <1>1
<1> QED BY <1>1, <1>2

LEMMA AtticStart == AtticInv /\ (HistoryInit \/ HistoryBuild) => AtticInv'
<1> SUFFICES ASSUME AtticInv, HistoryInit \/ HistoryBuild PROVE AtticInv'
  OBVIOUS
<1>1. HistoryInv /\ LogInOrder /\ TypeOK /\ now \in Nat /\ CurTyped
  BY DEF AtticInv, HistoryInv, TypeOK, CurTyped, AnyCell
<1>2. HistoryInv'
  BY <1>1, StartKeeps
<1>3. /\ log' = <<[time |-> now, rows |-> CurrentRows]>> /\ UNCHANGED <<cur, now>> /\ started'
  BY DEF HistoryInit, HistoryBuild, Start
<1>4. DOMAIN log' = {1} /\ log'[1].time = now /\ log'[1].rows = CurrentRows
  BY <1>3
<1>5. AllRows' = CurrentRows
  BY <1>4 DEF AllRows
<1>6. \A r \in CurrentRows : /\ r.id \in Ids /\ cur[r.id].live /\ r.live
                             /\ r.version = cur[r.id].version /\ r.cell = cur[r.id].cell
                             /\ r.from = cur[r.id].stamp /\ r.minor = 0 /\ r.prev = NoCell
  <2> SUFFICES ASSUME NEW r \in CurrentRows
               PROVE  /\ r.id \in Ids /\ cur[r.id].live /\ r.live
                      /\ r.version = cur[r.id].version /\ r.cell = cur[r.id].cell
                      /\ r.from = cur[r.id].stamp /\ r.minor = 0 /\ r.prev = NoCell
    OBVIOUS
  <2>1. /\ r.id \in Ids /\ cur[r.id].live
        /\ r = [id |-> r.id, version |-> cur[r.id].version, minor |-> 0, from |-> cur[r.id].stamp,
                live |-> TRUE, cell |-> cur[r.id].cell, prev |-> NoCell]
    BY CurrentRowIs
  <2> QED BY <2>1
<1>7. \A r, s \in CurrentRows : r.id = s.id => r = s
  BY CurrentRowIs
<1>8. \A i \in Ids : cur[i].stamp \in Nat /\ cur[i].stamp <= now
  BY <1>1 DEF LogInOrder, TypeOK
<1>9. \A r \in CurrentRows : r.from \in Nat /\ r.from <= now
  BY <1>6, <1>8
<1>10. ASSUME NEW R, R \subseteq CurrentRows PROVE LastBy(R, now) = R
  <2>1. ASSUME NEW r \in R, NEW s \in R, s.id = r.id PROVE ~(s.from > r.from)
    <3>1. s = r /\ r.from \in Nat
      BY <1>7, <1>9, <1>10, <2>1
    <3> QED BY <3>1
  <2> QED BY <1>9, <1>10, <2>1 DEF LastBy
<1>11. ASSUME NEW i \in Ids, cur[i].live PROVE \E r \in CurrentRows : r.id = i
  <2> DEFINE r == [id |-> i, version |-> cur[i].version, minor |-> 0, from |-> cur[i].stamp,
                   live |-> TRUE, cell |-> cur[i].cell, prev |-> NoCell]
  <2>1. r \in CurrentRows
    BY <1>11 DEF CurrentRows
  <2>2. r.id = i
    OBVIOUS
  <2> QED BY <2>1, <2>2
<1>12. LogInOrder'
  <2>1. 1..(1 - 1) = {}
    OBVIOUS
  <2>2. now <= now
    BY <1>1
  <2> QED BY <1>3, <1>4, <1>5, <1>7, <1>8, <1>9, <2>1, <2>2 DEF LogInOrder, OneAtATime
<1>13. LastBy(AllRows, now)' = CurrentRows
  <2>1. LastBy(AllRows, now)' = LastBy(AllRows', now')
    BY DEF LastBy
  <2> QED BY <1>3, <1>5, <1>10, <2>1
<1>14. LastIsCurrent'
  <2>1. \A i \in Ids : cur[i].live \in BOOLEAN
    BY <1>1 DEF CurTyped
  <2>2. \A r \in CurrentRows : r.live = cur[r.id].live
    <3>1. \A r \in CurrentRows : r.live = TRUE
      BY CurrentRowIs
    <3> QED BY <1>6, <2>1, <3>1
  <2> QED BY <1>3, <1>5, <1>6, <1>11, <1>13, <2>2 DEF LastIsCurrent
<1>15. MinorsFollowOwn'
  <2>1. OwnRowsOnly(CurrentRows) = CurrentRows
    BY <1>6 DEF OwnRowsOnly
  <2>2. LastBy(OwnRowsOnly(AllRows), now)' = LastBy(OwnRowsOnly(AllRows'), now')
    BY DEF LastBy, OwnRowsOnly
  <2>3. LastBy(OwnRowsOnly(AllRows), now)' = CurrentRows
    BY <1>3, <1>5, <1>10, <2>1, <2>2
  <2> QED BY <1>3, <1>5, <1>6, <1>11, <2>3 DEF MinorsFollowOwn
<1>16. NoGhosts'
  <2> SUFFICES ASSUME NEW c \in Places,
                      NEW r \in LastBy(InCell(SpatialRows(CurrentRows), c), now)
               PROVE  r \in LastBy(CurrentRows, now)
    <3>1. \A c : LastBy(InCell(SpatialRows(AllRows), c), log[1].time)'
                   = LastBy(InCell(SpatialRows(AllRows'), c), log'[1].time)
      BY DEF LastBy, InCell, SpatialRows
    <3>2. LastBy(AllRows, log[1].time)' = LastBy(AllRows', log'[1].time)
      BY DEF LastBy
    <3> QED BY <1>4, <1>5, <3>1, <3>2 DEF NoGhosts
  <2>1. SpatialRows(CurrentRows) = CurrentRows
    BY <1>6 DEF SpatialRows
  <2>2. r \in CurrentRows
    BY <2>1 DEF LastBy, InCell
  <2> QED BY <1>10, <2>2
<1> QED BY <1>2, <1>12, <1>14, <1>15, <1>16 DEF AtticInv

(* Folding and compacting move files and change no row. *)
LEMMA AtticUnchanged ==
  AtticInv /\ HistoryInv' /\ UNCHANGED <<cur, now, started, log>> => AtticInv'
<1> SUFFICES ASSUME AtticInv, HistoryInv', UNCHANGED <<cur, now, started, log>> PROVE AtticInv'
  OBVIOUS
<1>1. LogInOrder /\ LastIsCurrent /\ MinorsFollowOwn /\ NoGhosts
  BY DEF AtticInv
<1>2. AllRows' = AllRows
  BY DEF AllRows
<1>3. LogInOrder'
  BY <1>1, <1>2 DEF LogInOrder
<1>4. LastIsCurrent'
  BY <1>1, <1>2 DEF LastIsCurrent, LastBy
<1>5. MinorsFollowOwn'
  BY <1>1, <1>2 DEF MinorsFollowOwn, LastBy, OwnRowsOnly
<1>6. NoGhosts'
  BY <1>1, GhostsUnchanged
<1> QED BY <1>3, <1>4, <1>5, <1>6 DEF AtticInv

LEMMA AtticInit == Init => AtticInv
<1> SUFFICES ASSUME Init PROVE AtticInv
  OBVIOUS
<1>1. HistoryInv /\ log = <<>> /\ ~started /\ now = 0
  BY HistoryInit0 DEF Init
<1>2. DOMAIN log = {} /\ AllRows = {}
  BY <1>1 DEF AllRows
<1>3. \A i \in Ids : cur[i].stamp <= now
  BY DEF Init
<1> QED BY <1>1, <1>2, <1>3
       DEF AtticInv, LogInOrder, OneAtATime, LastIsCurrent, MinorsFollowOwn, NoGhosts

LEMMA AtticStep == AtticInv /\ [Next]_vars => AtticInv'
<1>1. AtticInv /\ Compact => AtticInv'
  <2>1. AtticInv /\ Compact => HistoryInv'
    BY CompactKeeps DEF AtticInv
  <2> QED BY <2>1, AtticUnchanged DEF Compact
<1>2. AtticInv /\ UNCHANGED vars => AtticInv'
  <2>1. AtticInv /\ UNCHANGED vars => HistoryInv'
    BY HistoryStep DEF AtticInv
  <2> QED BY <2>1, AtticUnchanged DEF vars
<1> QED BY <1>1, <1>2, AtticRun, AtticRunEmpty, AtticRunBefore, AtticStart DEF Next

(* In every state of the history: runs and rows are in order, no element   *)
(* has two rows of one instant, the last row is the current state, a minor *)
(* version follows the own version it names, and a cell shows no element   *)
(* that has left it (_build_history_batch, HISTORY_SPATIAL tombstones).    *)
THEOREM HistoryTellsTheTruth == Spec => []AtticInv
BY AtticInit, AtticStep, PTL DEF Spec
-----------------------------------------------------------------------------
(* Reads by id. *)

(* A read by id at any instant returns the last rows by it. *)
ReadsAreLast == \A t \in Nat : ByIdAt(t) = LastBy(AllRows, t)

LEMMA ByIdIsLast == AtticInv => ReadsAreLast
<1> SUFFICES ASSUME AtticInv, NEW t \in Nat PROVE ByIdAt(t) = LastBy(AllRows, t)
  BY DEF ReadsAreLast
<1>1. HistoryInv /\ OneAtATime(AllRows) /\ AllRows \in SUBSET Rows
  BY AllRowsTyped DEF AtticInv, LogInOrder, HistoryInv
<1>2. ByIdAt(t) = {r \in LastBy(AllRows, t) : r.id \in Ids}
  BY <1>1, RawIsLast DEF ByIdAt
<1>3. \A r \in LastBy(AllRows, t) : r.id \in Ids
  BY <1>1 DEF LastBy, Rows
<1> QED BY <1>2, <1>3

(* The history's answer for the present is the current state, moves and    *)
(* minor versions of touched parents included (raw_state_rows at           *)
(* timestamp_osm_base).                                                    *)
THEOREM LatestRowsAreCurrent == Spec => []LatestIsCurrent
<1>1. AtticInv => LatestIsCurrent
  <2> SUFFICES ASSUME AtticInv, started
               PROVE  Visible(ByIdAt(now)) =
                        {[id |-> i, version |-> cur[i].version, cell |-> cur[i].cell] :
                           i \in {j \in Ids : cur[j].live}}
    BY DEF LatestIsCurrent
  <2> DEFINE L == LastBy(AllRows, now)
             view(r) == [id |-> r.id, version |-> r.version, cell |-> r.cell]
             state(i) == [id |-> i, version |-> cur[i].version, cell |-> cur[i].cell]
  <2>1. ByIdAt(now) = L /\ LastIsCurrent /\ AllRows \in SUBSET Rows
    BY ByIdIsLast, AllRowsTyped DEF ReadsAreLast, AtticInv, HistoryInv, TypeOK
  <2>2. \A r \in L : r \in AllRows /\ r.id \in Ids
    BY <2>1 DEF LastBy, Rows
  <2>3. ASSUME NEW r \in L, r.live PROVE cur[r.id].live /\ view(r) = state(r.id)
    BY <2>1, <2>2, <2>3 DEF LastIsCurrent
  <2>4. ASSUME NEW i \in Ids, cur[i].live PROVE \E r \in L : r.live /\ view(r) = state(i)
    <3>1. PICK r \in L : r.id = i
      BY <2>1, <2>4 DEF LastIsCurrent
    <3>2. r.live = cur[i].live
      BY <2>1, <2>2, <3>1 DEF LastIsCurrent
    <3> QED BY <2>3, <2>4, <3>1, <3>2
  <2>5. Visible(ByIdAt(now)) = {view(r) : r \in {q \in L : q.live}}
    BY <2>1 DEF Visible
  <2> HIDE DEF L, view
  <2>6. {view(r) : r \in {q \in L : q.live}} = {state(i) : i \in {j \in Ids : cur[j].live}}
    BY <2>2, <2>3, <2>4
  <2> QED BY <2>5, <2>6
<1> QED BY <1>1, HistoryTellsTheTruth, PTL

(* No run, fold or compaction changes any element's state at an instant    *)
(* up to the last run (_lead_valid_to, STATE_ORDER_SQL).                   *)
THEOREM ThePastIsImmutable == Spec => PastIsImmutable
<1> DEFINE A == started => \A t \in 0..now : Rendered(ByIdAt(t))' = Rendered(ByIdAt(t))
<1>1. ASSUME AtticInv, ReadsAreLast, ReadsAreLast', [Next]_vars PROVE A
  <2> SUFFICES ASSUME started, NEW t \in 0..now PROVE Rendered(ByIdAt(t))' = Rendered(ByIdAt(t))
    OBVIOUS
  <2>1. HistoryInv /\ LogInOrder /\ TypeOK /\ now \in Nat /\ t \in Nat /\ t <= now
    BY <1>1 DEF AtticInv, HistoryInv, TypeOK
  <2>2. LastBy(AllRows', t) = LastBy(AllRows, t)
    <3>1. CASE RunWithHistory
      <4>1. PICK u \in Nat : u > now /\ \E b \in Batches(u) : RunOf(u, b)
        BY <2>1, <3>1, RunHasBatch
      <4>2. PICK b \in Batches(u) : RunOf(u, b)
        BY <4>1
      <4>3. /\ AllRows' = AllRows \cup HistoryBatch(b, u)
            /\ \A r \in HistoryBatch(b, u) : r \in Rows /\ r.from > now
        BY <2>1, <4>1, <4>2, RunAddsRows
      <4>4. \A r \in HistoryBatch(b, u) : r.from \in Nat /\ r.from > now
        BY <4>3 DEF Rows
      <4>5. LastBy(AllRows \cup HistoryBatch(b, u), t) = LastBy(AllRows, t)
        BY <2>1, <4>4, LastIsStable
      <4> QED BY <4>3, <4>5
    <3>2. CASE UNCHANGED log
      BY <3>2 DEF AllRows
    <3>3. ~RunWithoutHistory /\ ~HistoryInit /\ ~HistoryBuild
      BY DEF RunWithoutHistory, HistoryInit, HistoryBuild, Start
    <3>4. RunEmpty \/ Compact \/ UNCHANGED vars => UNCHANGED log
      BY DEF RunEmpty, Compact, vars
    <3> QED BY <1>1, <3>1, <3>2, <3>3, <3>4 DEF Next
  <2>3. ByIdAt(t) = LastBy(AllRows, t)
    BY <1>1, <2>1 DEF ReadsAreLast
  <2>4. ByIdAt(t)' = LastBy(AllRows, t)'
    BY <1>1, <2>1 DEF ReadsAreLast
  <2>5. LastBy(AllRows, t)' = LastBy(AllRows', t)
    BY DEF LastBy
  <2>6. Rendered(ByIdAt(t))' = Rendered(ByIdAt(t)')
    BY DEF Rendered
  <2> QED BY <2>2, <2>3, <2>4, <2>5, <2>6
<1>2. Spec => [](AtticInv /\ ReadsAreLast)
  BY HistoryTellsTheTruth, ByIdIsLast, PTL
<1>3. AtticInv /\ ReadsAreLast /\ ReadsAreLast' /\ [Next]_vars => [A]_vars
  BY <1>1
<1> HIDE DEF A
<1>4. Spec => [][A]_vars
  BY <1>2, <1>3, PTL DEF Spec
<1> QED BY <1>4 DEF PastIsImmutable, A

(* A set of naturals has an earliest one. *)
LEMMA EarliestIsLeast ==
  ASSUME NEW S \in SUBSET Nat, S # {}
  PROVE  Earliest(S) \in S /\ \A u \in S : Earliest(S) <= u
<1>1. PICK m \in S : TRUE
  OBVIOUS
<1> DEFINE D == {m - x : x \in {y \in S : y <= m}}
<1>2. D \in SUBSET Nat /\ m - m \in D /\ \A d \in D : d <= m
  BY <1>1
<1>3. MaxOf(D) \in D /\ \A d \in D : d <= MaxOf(D)
  <2> HIDE DEF D
  <2> QED BY <1>1, <1>2, MaxOfBounded
<1>4. PICK x \in S : x <= m /\ MaxOf(D) = m - x
  BY <1>3
<1>5. ASSUME NEW u \in S PROVE x <= u
  <2>1. CASE u <= m
    <3>1. m - u \in D
      BY <2>1
    <3>2. m - u <= m - x
      BY <1>3, <1>4, <3>1
    <3> QED BY <1>1, <1>4, <3>2
  <2>2. CASE ~(u <= m)
    <3>1. u \in Nat /\ m \in Nat /\ x \in Nat /\ x <= m
      BY <1>1, <1>4
    <3> HIDE DEF D
    <3> QED BY <2>2, <3>1
  <2> QED BY <2>1, <2>2
<1> QED BY <1>5 DEF Earliest

(* What is listed are the own versions of the element, each at least once. *)
LEMMA ListedAreOwn ==
  ASSUME HistoryInv, NEW i
  PROVE  /\ DOMAIN Folded = 1..Len(Folded) /\ Len(Folded) \in Nat
         /\ \A c \in Listed(i) :
              /\ c.at \in DOMAIN Folded /\ c = [at |-> c.at, row |-> c.row]
              /\ c.row \in OwnRowsOnly(AllRows) /\ c.row.id = i
              /\ c.row \in log[Folded[c.at]].rows
         /\ \A k \in DOMAIN Folded : \A r \in log[Folded[k]].rows :
              r.id = i /\ r.minor = 0 => [at |-> k, row |-> r] \in Listed(i)
         /\ \A r \in OwnRowsOnly(AllRows) :
              \E k \in DOMAIN Folded : r \in log[Folded[k]].rows
<1>1. TypeOK /\ NothingIsLost
  BY DEF HistoryInv
<1>2. Folded \in Seq(DOMAIN log)
  <2>1. /\ base \in Seq(DOMAIN log) /\ hour \in Seq(DOMAIN log)
        /\ day \in Seq(DOMAIN log) /\ week \in Seq(DOMAIN log)
    BY <1>1 DEF TypeOK
  <2>2. base \o hour \in Seq(DOMAIN log)
    BY <2>1, ConcatProperties
  <2>3. (base \o hour) \o day \in Seq(DOMAIN log)
    BY <2>1, <2>2, ConcatProperties
  <2> QED BY <2>1, <2>3, ConcatProperties DEF Folded
<1>3. /\ DOMAIN Folded = 1..Len(Folded) /\ Len(Folded) \in Nat
      /\ \A k \in DOMAIN Folded : Folded[k] \in DOMAIN log
  BY <1>2, LenProperties, ElementOfSeq
<1>4. ASSUME NEW c \in Listed(i)
      PROVE  /\ c.at \in DOMAIN Folded /\ c = [at |-> c.at, row |-> c.row]
             /\ c.row \in OwnRowsOnly(AllRows) /\ c.row.id = i
             /\ c.row \in log[Folded[c.at]].rows
  <2>1. PICK k \in DOMAIN Folded :
          c \in {[at |-> k, row |-> r] : r \in {q \in log[Folded[k]].rows : q.id = i /\ q.minor = 0}}
    BY DEF Listed
  <2>2. PICK r \in log[Folded[k]].rows : r.id = i /\ r.minor = 0 /\ c = [at |-> k, row |-> r]
    BY <2>1
  <2>3. r \in AllRows
    BY <1>3, <2>2 DEF AllRows
  <2> QED BY <2>2, <2>3 DEF OwnRowsOnly
<1>5. ASSUME NEW k \in DOMAIN Folded, NEW r \in log[Folded[k]].rows, r.id = i, r.minor = 0
      PROVE  [at |-> k, row |-> r] \in Listed(i)
  BY <1>5 DEF Listed
<1>6. ASSUME NEW r \in OwnRowsOnly(AllRows)
      PROVE  \E k \in DOMAIN Folded : r \in log[Folded[k]].rows
  <2>1. PICK l \in DOMAIN log : r \in log[l].rows
    BY DEF OwnRowsOnly, AllRows
  <2>2. Copies(l, Folded) # 0
    BY <1>1 DEF NothingIsLost, Folded
  <2>3. {j \in DOMAIN Folded : Folded[j] = l} # {}
    BY <2>2, FS_EmptySet DEF Copies
  <2> QED BY <2>1, <2>3
<1> QED BY <1>3, <1>4, <1>5, <1>6

(* An entry has begun and not expired when none after it has begun. *)
LEMMA EntryHolds ==
  ASSUME HistoryInv, NEW i, NEW t \in Nat, NEW c \in Listed(i)
  PROVE  LET e == Entry(c, Listed(i)) IN
           e.created <= t /\ (e.expired = NoTime \/ t < e.expired)
             <=> c.row.from <= t /\ \A d \in Listed(i) : IsListedBefore(c, d) => ~(d.row.from <= t)
<1> DEFINE later == {d \in Listed(i) : IsListedBefore(c, d)}
           S == {d.row.from : d \in later}
           e == Entry(c, Listed(i))
<1>1. e.created = c.row.from /\ e.expired = IF later = {} THEN NoTime ELSE Earliest(S)
  BY DEF Entry
<1>2. S \in SUBSET Nat
  <2>1. AllRows \in SUBSET Rows
    BY AllRowsTyped DEF HistoryInv
  <2> QED BY <2>1, ListedAreOwn DEF OwnRowsOnly, Rows
<1>3. CASE later = {}
  BY <1>1, <1>3
<1>4. CASE later # {}
  <2>1. S # {}
    BY <1>4
  <2> HIDE DEF S
  <2>2. Earliest(S) \in S /\ \A u \in S : Earliest(S) <= u
    BY <1>2, <2>1, EarliestIsLeast
  <2>3. Earliest(S) \in Nat /\ e.expired = Earliest(S) /\ e.expired # NoTime
    BY <1>1, <1>2, <1>4, <2>2, HistoryAssumption
  <2>4. t < Earliest(S) <=> \A u \in S : ~(u <= t)
    BY <1>2, <2>2, <2>3
  <2>5. (\A u \in S : ~(u <= t)) <=> \A d \in later : ~(d.row.from <= t)
    BY DEF S
  <2>6. (\A d \in later : ~(d.row.from <= t))
          <=> \A d \in Listed(i) : IsListedBefore(c, d) => ~(d.row.from <= t)
    OBVIOUS
  <2> HIDE DEF e, later
  <2>7. e.created <= t /\ (e.expired = NoTime \/ t < e.expired)
          <=> c.row.from <= t /\ \A d \in later : ~(d.row.from <= t)
    BY <1>1, <2>3, <2>4, <2>5
  <2> QED BY <2>6, <2>7 DEF e
<1> QED BY <1>3, <1>4

(* At any instant one entry of the timeline has begun and not expired, the *)
(* version a query at that instant reads, although timeline_elements lists *)
(* a row that a fold has stored twice two times (raw_state_rows).          *)
THEOREM TimelinesAgree == Spec => []TimelineAgrees
<1>1. AtticInv => TimelineAgrees
  <2> SUFFICES ASSUME AtticInv, NEW i \in Ids, NEW t \in 0..now, started
               PROVE  /\ {e.version : e \in OnTimeline(i, t)} = {r.version : r \in RawAt({i}, t)}
                      /\ \A e, f \in OnTimeline(i, t) : e = f
    BY DEF TimelineAgrees
  <2> DEFINE Own == OwnRowsOnly(AllRows)
             L == LastBy(Own, t)
  <2>1. /\ HistoryInv /\ OneAtATime(AllRows) /\ AllRows \in SUBSET Rows /\ t \in Nat
        /\ MinorsFollowOwn
    BY AllRowsTyped DEF AtticInv, LogInOrder, HistoryInv, TypeOK
  <2>2. RawAt({i}, t) = {r \in LastBy(AllRows, t) : r.id = i}
    BY <2>1, RawIsLast
  <2>3. Own \in SUBSET Rows /\ OneAtATime(Own) /\ Own \subseteq AllRows
    BY <2>1 DEF OwnRowsOnly, OneAtATime
  <2>4. /\ {e.version : e \in OnTimeline(i, t)} = {r.version : r \in {q \in L : q.id = i}}
        /\ \A e, f \in OnTimeline(i, t) : e = f
    <3> DEFINE Holds(c) ==
                 c.row.from <= t /\ \A d \in Listed(i) : IsListedBefore(c, d) => ~(d.row.from <= t)
    <3>1. \A r \in Own : r.from \in Nat /\ r.version \in Nat
      BY <2>3 DEF Rows
    <3>2. \A c \in Listed(i) : c.row \in Own /\ c.row.id = i /\ c.at \in Nat
      BY <2>1, ListedAreOwn
    <3>3. ASSUME NEW e \in OnTimeline(i, t)
          PROVE  \E c \in Listed(i) : e = Entry(c, Listed(i)) /\ Holds(c)
      <4>1. PICK c \in Listed(i) : e = Entry(c, Listed(i))
        BY DEF OnTimeline, Timeline
      <4>2. e.created <= t /\ (e.expired = NoTime \/ t < e.expired)
        BY DEF OnTimeline
      <4> QED BY <2>1, <4>1, <4>2, EntryHolds
    <3>4. ASSUME NEW c \in Listed(i), Holds(c) PROVE Entry(c, Listed(i)) \in OnTimeline(i, t)
      BY <2>1, <3>4, EntryHolds DEF OnTimeline, Timeline
    <3>5. ASSUME NEW c \in Listed(i), Holds(c) PROVE c.row \in L
      <4>1. c.row \in Own /\ c.row.id = i /\ c.row.from <= t
        BY <3>2, <3>5
      <4>2. ASSUME NEW s \in Own, s.id = i, s.from > c.row.from, s.from <= t PROVE FALSE
        <5>1. PICK k \in DOMAIN Folded : [at |-> k, row |-> s] \in Listed(i)
          BY <2>1, <4>2, ListedAreOwn DEF OwnRowsOnly
        <5>2. IsListedBefore(c, [at |-> k, row |-> s])
          BY <3>1, <4>1, <4>2 DEF IsListedBefore
        <5> QED BY <3>5, <4>2, <5>1, <5>2
      <4> HIDE DEF Own
      <4> QED BY <4>1, <4>2 DEF LastBy
    <3>6. ASSUME NEW c \in Listed(i), Holds(c), NEW d \in Listed(i), Holds(d) PROVE c = d
      <4>1. ~IsListedBefore(c, d) /\ ~IsListedBefore(d, c)
        BY <3>6
      <4>2. c.row \in L /\ d.row \in L /\ c.row.id = d.row.id
        BY <3>2, <3>5, <3>6
      <4> HIDE DEF Own
      <4>3. c.row = d.row
        BY <2>3, <4>2, LastIsUnique
      <4>4. c.at = d.at
        BY <3>2, <4>1, <4>3 DEF IsListedBefore
      <4> QED BY <2>1, <4>3, <4>4, ListedAreOwn
    <3>7. ASSUME NEW r \in L, r.id = i PROVE \E c \in Listed(i) : c.row = r /\ Holds(c)
      <4> DEFINE K == {k \in DOMAIN Folded : r \in log[Folded[k]].rows}
                 c == [at |-> MaxOf(K), row |-> r]
      <4>1. r \in Own /\ r.minor = 0 /\ r.from <= t
        BY DEF LastBy, OwnRowsOnly
      <4>2. K \in SUBSET Nat /\ K # {} /\ Len(Folded) \in Nat /\ \A k \in K : k <= Len(Folded)
        BY <2>1, <4>1, ListedAreOwn
      <4>3. MaxOf(K) \in K /\ \A k \in K : k <= MaxOf(K)
        <5> HIDE DEF K
        <5> QED BY <4>2, MaxOfBounded
      <4>4. c \in Listed(i)
        BY <2>1, <3>7, <4>1, <4>3, ListedAreOwn
      <4>5. ASSUME NEW d \in Listed(i), IsListedBefore(c, d), d.row.from <= t PROVE FALSE
        <5>1. d.row \in Own /\ d.row.id = i /\ d.at \in Nat
          BY <3>2
        <5>2. ~(d.row.from > r.from)
          BY <3>7, <4>5, <5>1 DEF LastBy
        <5>3. d.row.from = r.from
          BY <3>1, <4>1, <4>5, <5>1, <5>2 DEF IsListedBefore
        <5>4. d.row = r
          BY <2>3, <3>7, <4>1, <5>1, <5>3 DEF OneAtATime
        <5>5. d.at > MaxOf(K)
          BY <3>1, <4>1, <4>5, <5>4 DEF IsListedBefore
        <5>6. d.at \in K
          BY <2>1, <5>4, ListedAreOwn
        <5>7. d.at <= MaxOf(K) /\ MaxOf(K) \in Nat
          BY <4>2, <4>3, <5>6
        <5> HIDE DEF K
        <5> QED BY <5>1, <5>5, <5>7
      <4> QED BY <4>1, <4>4, <4>5
    <3>8. \A c \in Listed(i) : Entry(c, Listed(i)).version = c.row.version
      BY DEF Entry
    <3> HIDE DEF L, Holds
    <3>9. \A e \in OnTimeline(i, t) : \E r \in {q \in L : q.id = i} : e.version = r.version
      BY <3>2, <3>3, <3>5, <3>8
    <3>10. \A r \in {q \in L : q.id = i} : \E e \in OnTimeline(i, t) : e.version = r.version
      BY <3>4, <3>7, <3>8
    <3> QED BY <3>3, <3>6, <3>9, <3>10
  <2>5. ASSUME NEW r \in LastBy(AllRows, t), r.id = i
        PROVE  \E q \in L : q.id = i /\ q.version = r.version
    <3>1. r \in AllRows /\ r.from \in Nat /\ r.from <= t
      BY <2>1 DEF LastBy, Rows
    <3>2. CASE r.minor = 0
      <4>1. r \in L
        BY <3>1, <3>2 DEF LastBy, OwnRowsOnly
      <4> QED BY <2>5, <4>1
    <3>3. CASE r.minor # 0
      <4>1. PICK q \in LastBy(Own, r.from) : q.id = r.id /\ q.version = r.version
        BY <2>1, <3>1, <3>3 DEF MinorsFollowOwn
      <4>2. q \in Own /\ q.from \in Nat /\ q.from <= r.from
        BY <2>3 DEF LastBy, Rows
      <4>3. ASSUME NEW s \in Own, s.id = q.id, s.from > q.from, s.from <= t PROVE FALSE
        <5>1. s.from \in Nat /\ s \in AllRows
          BY <2>3 DEF Rows
        <5>2. ~(s.from > r.from)
          BY <4>1, <4>3, <5>1 DEF LastBy
        <5>3. s.from <= r.from
          BY <3>1, <5>1, <5>2
        <5> QED BY <4>3, <5>3 DEF LastBy
      <4>4. q.from <= t
        BY <2>1, <3>1, <4>2
      <4> HIDE DEF Own
      <4>5. q \in L
        BY <4>2, <4>3, <4>4 DEF LastBy
      <4> QED BY <2>5, <4>1, <4>5
    <3> QED BY <3>2, <3>3
  <2>6. ASSUME NEW q \in L, q.id = i
        PROVE  \E r \in LastBy(AllRows, t) : r.id = i /\ q.version = r.version
    <3>1. q \in AllRows /\ q.from <= t
      BY <2>3 DEF LastBy
    <3>2. PICK r \in LastBy(AllRows, t) : r.id = q.id
      BY <2>1, <3>1, LastExists
    <3>3. PICK p \in L : p.id = i /\ p.version = r.version
      BY <2>5, <2>6, <3>2
    <3> HIDE DEF Own
    <3>4. p = q
      BY <2>3, <2>6, <3>3, LastIsUnique
    <3> QED BY <2>6, <3>2, <3>3, <3>4
  <2> HIDE DEF L
  <2> DEFINE M == LastBy(AllRows, t)
  <2>7. {r.version : r \in {q \in L : q.id = i}} = {r.version : r \in {q \in M : q.id = i}}
    <3> HIDE DEF M
    <3>1. \A r \in {q \in M : q.id = i} : \E q \in {p \in L : p.id = i} : q.version = r.version
      BY <2>5 DEF M
    <3>2. \A q \in {p \in L : p.id = i} : \E r \in {p \in M : p.id = i} : q.version = r.version
      BY <2>6 DEF M
    <3> QED BY <3>1, <3>2
  <2> QED BY <2>2, <2>4, <2>7
<1> QED BY <1>1, HistoryTellsTheTruth, PTL
-----------------------------------------------------------------------------
(* Scans of cells. *)

(* A row and the trace of its move lie in different cells, so within the   *)
(* files of one cell no element has two rows of one instant.               *)
LEMMA CellOneAtATime ==
  ASSUME NEW rows \in SUBSET Rows, OneAtATime(rows), NEW c
  PROVE  OneAtATime(InCell(SpatialRows(rows), c))
<1> SUFFICES ASSUME NEW p \in SpatialRows(rows), NEW q \in SpatialRows(rows),
                    p.cell = c, q.cell = c, p.id = q.id, p.from = q.from
             PROVE  p = q
  BY DEF OneAtATime, InCell
<1> DEFINE Trace(r) == [r EXCEPT !.cell = r.prev, !.live = FALSE]
<1>1. ASSUME NEW s \in SpatialRows(rows)
      PROVE  \E r \in rows : /\ s = r \/ (s = Trace(r) /\ r.prev # r.cell)
                             /\ s.id = r.id /\ s.from = r.from
  <2>1. CASE s \in rows
    BY <2>1
  <2>2. CASE s \notin rows
    <3>1. PICK r \in rows : s = Trace(r) /\ r.prev # r.cell
      BY <2>2 DEF SpatialRows
    <3>2. r \in Rows
      OBVIOUS
    <3>3. s.id = r.id /\ s.from = r.from
      BY <3>1, <3>2 DEF Rows
    <3> QED BY <3>1, <3>3
  <2> QED BY <2>1, <2>2
<1>2. PICK r \in rows : /\ p = r \/ (p = Trace(r) /\ r.prev # r.cell)
                        /\ p.id = r.id /\ p.from = r.from
  BY <1>1
<1>3. PICK s \in rows : /\ q = s \/ (q = Trace(s) /\ s.prev # s.cell)
                        /\ q.id = s.id /\ q.from = s.from
  BY <1>1
<1>4. r = s
  BY <1>2, <1>3 DEF OneAtATime
<1>5. Trace(r).cell = r.prev
  <2>1. r \in Rows
    OBVIOUS
  <2> QED BY <2>1 DEF Rows
<1> HIDE DEF Trace
<1> QED BY <1>2, <1>3, <1>4, <1>5

(* The visible rows of a scan at the time of a run are the last rows of    *)
(* the elements asked for that lie in the cells asked for.                 *)
LEMMA ScanIsLast ==
  ASSUME AtticInv, NEW k \in DOMAIN log, NEW ids, NEW cells \in SUBSET Places
  PROVE  {r \in ScanOf(ids, cells, log[k].time) : r.live}
           = {r \in LastBy(AllRows, log[k].time) : r.live /\ r.id \in ids /\ r.cell \in cells}
<1> DEFINE t == log[k].time
           B == SpatialRows(Of(ids, BaseRows))
           T == SpatialRows(Of(ids, TierRows))
           X == (UNION {Valid(InCell(B, c), t) : c \in cells})
                  \cup {r \in T : r.cell \in cells /\ r.from <= t}
           Sp == SpatialRows(AllRows)
<1>1. /\ HistoryInv /\ OneAtATime(AllRows) /\ AllRows \in SUBSET Rows
      /\ NoGhosts /\ BaseRows \cup TierRows = AllRows
  BY StoredIsAll, AllRowsTyped DEF AtticInv, LogInOrder, HistoryInv
<1>2. t \in Nat
  <2>1. log[k] \in Entries
    BY <1>1, ElementOfSeq, LenProperties DEF HistoryInv, TypeOK, Entries
  <2> QED BY <2>1 DEF Entries
<1>3. ScanOf(ids, cells, t) = StateAt(X)
  BY DEF ScanOf
<1>4. /\ Of(ids, BaseRows) \in SUBSET Rows /\ OneAtATime(Of(ids, BaseRows))
      /\ Of(ids, TierRows) \in SUBSET Rows
      /\ Of(ids, BaseRows) \cup Of(ids, TierRows) = {r \in AllRows : r.id \in ids}
  BY <1>1 DEF Of, OneAtATime
<1>5. ASSUME NEW c PROVE Valid(InCell(B, c), t) = LastBy(InCell(B, c), t)
  <2>1. InCell(B, c) \in SUBSET Rows
    BY <1>4, SpatialRowIs DEF InCell
  <2>2. OneAtATime(InCell(B, c))
    BY <1>4, CellOneAtATime
  <2> QED BY <2>1, <2>2, ValidIsLast
<1>6. B \cup T = SpatialRows({r \in AllRows : r.id \in ids})
  BY <1>4, SpatialUnion
<1>7. ASSUME NEW q \in B \cup T
      PROVE  /\ q \in Sp /\ q \in Rows /\ q.id \in ids /\ q.from \in Nat
             /\ q.live => q \in AllRows
             /\ \E r \in AllRows : q.id = r.id /\ q.from = r.from
  <2>1. q \in Sp
    BY <1>6 DEF SpatialRows
  <2>2. /\ q \in Rows /\ q.live => q \in AllRows
    BY <1>1, <2>1, SpatialRowIs
  <2>3. {r \in AllRows : r.id \in ids} \in SUBSET Rows
    BY <1>1
  <2>4. PICK r \in {p \in AllRows : p.id \in ids} : q.id = r.id /\ q.from = r.from
    BY <1>6, <2>3, SpatialRowIs
  <2>5. q \in Rows /\ q.from \in Nat
    BY <1>1, <2>1, SpatialRowIs DEF Rows
  <2>6. q.live => q \in AllRows
    BY <1>1, <2>1, SpatialRowIs
  <2> QED BY <2>1, <2>4, <2>5, <2>6
<1>8. ASSUME NEW q \in Sp, q.id \in ids PROVE q \in B \cup T
  <2>1. CASE q \in AllRows
    BY <1>6, <1>8, <2>1 DEF SpatialRows
  <2>2. CASE q \notin AllRows
    <3>1. PICK r \in AllRows : /\ q = [r EXCEPT !.cell = r.prev, !.live = FALSE]
                               /\ r.prev # NoCell /\ r.prev # r.cell
      BY <2>2 DEF SpatialRows
    <3>2. q.id = r.id
      <4>1. r \in Rows
        BY <1>1
      <4> QED BY <3>1, <4>1 DEF Rows
    <3>3. r \in {p \in AllRows : p.id \in ids}
      BY <1>8, <3>2
    <3> QED BY <1>6, <3>1, <3>3 DEF SpatialRows
  <2> QED BY <2>1, <2>2
<1>9. X \subseteq B \cup T /\ \A q \in X : q.cell \in cells /\ q.from <= t
  <2>1. ASSUME NEW c \in cells, NEW q \in Valid(InCell(B, c), t)
        PROVE  q \in B /\ q.cell \in cells /\ q.from <= t
    BY <1>5 DEF LastBy, InCell
  <2> QED BY <2>1
<1>10. ASSUME NEW r \in StateAt(X), r.live
       PROVE  r \in LastBy(AllRows, t) /\ r.id \in ids /\ r.cell \in cells
  <2>1. r \in X /\ \A s \in X : ~(s.id = r.id /\ IsNewer(s, r))
    BY DEF StateAt
  <2>2. r \in B \cup T /\ r.cell \in cells /\ r.from <= t /\ r \in Sp /\ r.id \in ids /\ r.from \in Nat
    BY <1>7, <1>9, <2>1
  <2> DEFINE c == r.cell
  <2>3. ASSUME NEW s \in X, s.id = r.id PROVE ~(s.from > r.from)
    BY <2>1, <2>3 DEF IsNewer
  <2>4. ASSUME NEW s \in InCell(Sp, c), s.id = r.id, s.from > r.from, s.from <= t PROVE FALSE
    <3>1. s \in B \cup T /\ s.cell = c /\ s.from \in Nat
      BY <1>7, <1>8, <2>2, <2>4 DEF InCell
    <3>2. CASE s \in T
      <4>1. s \in X
        BY <2>2, <2>4, <3>1, <3>2
      <4> QED BY <2>3, <2>4, <4>1
    <3>3. CASE s \in B
      <4>1. InCell(B, c) \in SUBSET Rows /\ s \in InCell(B, c)
        BY <1>7, <3>1, <3>3 DEF InCell
      <4>2. PICK q \in LastBy(InCell(B, c), t) : q.id = s.id /\ q.from >= s.from
        BY <1>2, <2>4, <4>1, LastExists
      <4>3. q \in X
        BY <1>5, <2>2, <4>2
      <4>4. q.from > r.from
        BY <1>7, <1>9, <2>2, <2>4, <3>1, <4>2, <4>3
      <4> QED BY <2>3, <2>4, <4>2, <4>3, <4>4
    <3> QED BY <3>1, <3>2, <3>3
  <2>5. r \in InCell(Sp, c)
    BY <2>2 DEF InCell
  <2> HIDE DEF Sp
  <2>6. r \in LastBy(InCell(Sp, c), t)
    BY <2>2, <2>4, <2>5 DEF LastBy
  <2>7. c \in Places
    BY <2>2
  <2>8. r \in LastBy(AllRows, t)
    BY <1>1, <1>10, <2>6, <2>7 DEF NoGhosts, Sp
  <2> QED BY <2>2, <2>8
<1>11. ASSUME NEW r \in LastBy(AllRows, t), r.live, r.id \in ids, r.cell \in cells
       PROVE  r \in StateAt(X)
  <2>1. r \in AllRows /\ r.from <= t /\ r.from \in Nat /\ r.live = TRUE
    BY <1>1, <1>11 DEF LastBy, Rows
  <2>2. r \in B \cup T
    <3>1. r \in Sp
      BY <2>1 DEF SpatialRows
    <3> QED BY <1>8, <1>11, <3>1
  <2>3. ASSUME NEW s \in B \cup T, s.id = r.id, s.from <= t PROVE ~(s.from > r.from)
    <3>1. PICK p \in AllRows : p.id = s.id /\ p.from = s.from
      BY <1>7
    <3> QED BY <2>3, <3>1 DEF LastBy
  <2>4. r \in X
    <3>1. CASE r \in T
      BY <1>11, <2>1, <3>1
    <3>2. CASE r \in B
      <4> DEFINE I == InCell(B, r.cell)
      <4>1. r \in I /\ \A s \in I : s \in B
        BY <3>2 DEF InCell
      <4> HIDE DEF B, I
      <4>2. r \in LastBy(I, t)
        BY <2>1, <2>3, <4>1 DEF LastBy
      <4> QED BY <1>5, <1>11, <4>2 DEF I
    <3> QED BY <2>2, <3>1, <3>2
  <2>5. ASSUME NEW s \in X, s.id = r.id, IsNewer(s, r) PROVE FALSE
    <3>1. s \in B \cup T /\ s.from <= t /\ s.from \in Nat /\ s \in Rows
      BY <1>7, <1>9
    <3>2. ~(s.from > r.from)
      BY <2>3, <2>5, <3>1
    <3>3. s.from = r.from /\ s.live
      BY <2>1, <2>5, <3>2 DEF IsNewer
    <3>4. s = r
      BY <1>1, <1>7, <2>1, <2>5, <3>1, <3>3 DEF OneAtATime
    <3>5. r.version \in Nat /\ r.minor \in Nat
      BY <1>1, <2>1 DEF Rows
    <3>6. IsNewer(r, r)
      BY <2>5, <3>4
    <3> QED BY <2>1, <3>5, <3>6 DEF IsNewer
  <2> HIDE DEF X
  <2> QED BY <2>4, <2>5 DEF StateAt
<1> HIDE DEF X, t
<1>12. {r \in StateAt(X) : r.live}
         = {r \in LastBy(AllRows, t) : r.live /\ r.id \in ids /\ r.cell \in cells}
  BY <1>10, <1>11
<1> QED BY <1>3, <1>12 DEF t

(* The cells asked for are cells. *)
LEMMA AskedAreCells ==
  ASSUME NEW cells \in Asked
  PROVE  cells \in SUBSET Places
BY DEF Asked

LEMMA RunTime ==
  ASSUME AtticInv, NEW k \in DOMAIN log
  PROVE  log[k].time \in Nat
<1>1. log[k] \in Entries
  BY ElementOfSeq, LenProperties DEF AtticInv, HistoryInv, TypeOK, Entries
<1> QED BY <1>1 DEF Entries

(* At the time of any run a scan of any cells finds exactly the elements   *)
(* whose state by id lies in them (snapshot_current_rows,                  *)
(* snapshot_byid_current_rows).                                            *)
THEOREM ScansAgree == Spec => []ScanAgrees
<1>1. AtticInv => ScanAgrees
  <2> SUFFICES ASSUME AtticInv, NEW k \in DOMAIN log, NEW cells \in Asked
               PROVE  Visible(ScanAt(cells, log[k].time))
                        = {v \in Visible(ByIdAt(log[k].time)) : v.cell \in cells}
    BY DEF ScanAgrees
  <2> DEFINE t == log[k].time
             L == LastBy(AllRows, t)
             S == ScanAt(cells, t)
             view(r) == [id |-> r.id, version |-> r.version, cell |-> r.cell]
  <2>1. ByIdAt(t) = L
    BY RunTime, ByIdIsLast DEF ReadsAreLast
  <2>2. \A r \in L : r.id \in Ids
    BY AllRowsTyped DEF AtticInv, HistoryInv, LastBy, Rows
  <2>3. {r \in S : r.live} = {r \in L : r.live /\ r.id \in Ids /\ r.cell \in cells}
    BY AskedAreCells, ScanIsLast DEF ScanAt
  <2>4. Visible(S) = {view(r) : r \in {q \in S : q.live}}
    BY DEF Visible
  <2>5. Visible(L) = {view(r) : r \in {q \in L : q.live}}
    BY DEF Visible
  <2>6. \A r : view(r).cell = r.cell
    OBVIOUS
  <2> HIDE DEF S, L, view, t
  <2>7. {view(r) : r \in {q \in S : q.live}}
          = {v \in {view(r) : r \in {q \in L : q.live}} : v.cell \in cells}
    BY <2>2, <2>3, <2>6
  <2>8. Visible(S) = {v \in Visible(ByIdAt(t)) : v.cell \in cells}
    BY <2>1, <2>4, <2>5, <2>7
  <2> QED BY <2>8 DEF S, t
<1> QED BY <1>1, HistoryTellsTheTruth, PTL
(* What an element's last row in a cell was before, or there is a row of a *)
(* later change in that cell: a state only stops being the last where it   *)
(* leaves a trace.                                                         *)
LEMMA ChangeIsSeen ==
  ASSUME AtticInv, NEW k \in DOMAIN log, NEW l \in DOMAIN log, log[k].time < log[l].time,
         NEW cells \in SUBSET Places, NEW r \in LastBy(AllRows, log[k].time),
         r.live, r.cell \in cells, r \notin LastBy(AllRows, log[l].time)
  PROVE  r.id \in ChangedIds(cells, log[k].time, log[l].time)
<1> DEFINE p == log[k].time
           q == log[l].time
           c == r.cell
           Sp == SpatialRows(AllRows)
           Between == {s \in AllRows : s.from > p /\ s.from <= q}
<1>1. /\ AllRows \in SUBSET Rows /\ NoGhosts /\ BaseRows \cup TierRows = AllRows
      /\ p \in Nat /\ q \in Nat
  BY StoredIsAll, AllRowsTyped, RunTime DEF AtticInv, HistoryInv
<1>2. r \in AllRows /\ r.from <= p /\ r.from \in Nat /\ r.from <= q
  BY <1>1 DEF LastBy, Rows
<1>3. PICK s \in InCell(Sp, c) : s.id = r.id /\ s.from > r.from /\ s.from <= q
  <2> SUFFICES ASSUME \A s \in InCell(Sp, c) : ~(s.id = r.id /\ s.from > r.from /\ s.from <= q)
               PROVE  FALSE
    OBVIOUS
  <2>1. r \in InCell(Sp, c)
    BY <1>2 DEF InCell, SpatialRows
  <2> HIDE DEF Sp
  <2>2. r \in LastBy(InCell(Sp, c), q)
    BY <1>2, <2>1 DEF LastBy
  <2>3. r \in LastBy(AllRows, q)
    BY <1>1, <2>2 DEF NoGhosts, Sp
  <2> QED BY <2>3
<1>4. s \in Sp /\ s.cell = c
  BY <1>3 DEF InCell
<1>5. PICK o \in AllRows : /\ s = o \/ (/\ s = [o EXCEPT !.cell = o.prev, !.live = FALSE]
                                        /\ o.prev # NoCell /\ o.prev # o.cell)
                           /\ o.id = s.id /\ o.from = s.from
  <2>1. CASE s \in AllRows
    BY <2>1
  <2>2. CASE s \notin AllRows
    <3>1. PICK o \in AllRows : /\ s = [o EXCEPT !.cell = o.prev, !.live = FALSE]
                               /\ o.prev # NoCell /\ o.prev # o.cell
      BY <1>4, <2>2 DEF SpatialRows
    <3>2. o \in Rows
      BY <1>1
    <3>3. o.id = s.id /\ o.from = s.from
      BY <3>1, <3>2 DEF Rows
    <3> QED BY <3>1, <3>3
  <2> QED BY <2>1, <2>2
<1>6. o \in Between
  <2>1. o.from \in Nat /\ o.from > r.from /\ o.id = r.id /\ o.from <= q
    BY <1>1, <1>3, <1>5 DEF Rows
  <2>2. ~(o.from <= p)
    BY <2>1 DEF LastBy
  <2> QED BY <1>1, <2>1, <2>2
<1>7. s \in SpatialRows(Between)
  BY <1>5, <1>6 DEF SpatialRows
<1>8. RowsFrom(p, q) = SpatialRows(Between)
  BY <1>1 DEF RowsFrom
<1> HIDE DEF Between
<1> QED BY <1>3, <1>4, <1>7, <1>8 DEF ChangedIds

(* Every element an augmented diff between two runs reports, (changed:)    *)
(* over the same cells finds too (build_diff_actions,                      *)
(* changed_ids_predicate).                                                 *)
THEOREM ChangedFindsAllDiffs == Spec => []ChangedCoversDiff
<1>1. AtticInv => ChangedCoversDiff
  <2> SUFFICES ASSUME AtticInv, NEW cells \in Asked, NEW a \in Printed(cells), NEW z \in Printed(cells),
                      a.time < z.time, NEW x \in DiffActions(a.rows, z.rows, a.time, z.time)
               PROVE  x.id \in ChangedIds(cells, a.time, z.time)
    BY DEF ChangedCoversDiff
  <2>1. PICK k \in DOMAIN log : a = [time |-> log[k].time, rows |-> Rendered(ScanAt(cells, log[k].time))]
    BY DEF Printed
  <2>2. PICK l \in DOMAIN log : z = [time |-> log[l].time, rows |-> Rendered(ScanAt(cells, log[l].time))]
    BY DEF Printed
  <2> DEFINE p == log[k].time
             q == log[l].time
             printed(r) == [id |-> r.id, version |-> r.version, minor |-> r.minor, cell |-> r.cell]
             In(u) == {r \in LastBy(AllRows, u) : r.live /\ r.cell \in cells}
  <2>3. /\ a.time = p /\ z.time = q /\ p < q /\ p \in Nat /\ q \in Nat
        /\ a.rows = Rendered(ScanAt(cells, p)) /\ z.rows = Rendered(ScanAt(cells, q))
    BY <2>1, <2>2, RunTime
  <2>4. ASSUME NEW m \in DOMAIN log
        PROVE  Rendered(ScanAt(cells, log[m].time)) = {printed(r) : r \in In(log[m].time)}
    <3> DEFINE u == log[m].time
    <3>1. \A r \in LastBy(AllRows, u) : r.id \in Ids
      BY AllRowsTyped DEF AtticInv, HistoryInv, LastBy, Rows
    <3>2. {r \in ScanAt(cells, u) : r.live} = In(u)
      BY <3>1, AskedAreCells, ScanIsLast DEF ScanAt
    <3> QED BY <3>2 DEF Rendered
  <2>5. a.rows = {printed(r) : r \in In(p)} /\ z.rows = {printed(r) : r \in In(q)}
    BY <2>3, <2>4
  <2>6. AllRows \in SUBSET Rows /\ BaseRows \cup TierRows = AllRows
    BY AllRowsTyped, StoredIsAll DEF AtticInv, HistoryInv
  <2>7. ASSUME NEW r \in In(p), r \notin In(q) PROVE r.id \in ChangedIds(cells, p, q)
    BY <2>3, <2>7, AskedAreCells, ChangeIsSeen
  <2>8. ASSUME NEW r \in In(q), r \notin In(p) PROVE r.id \in ChangedIds(cells, p, q)
    <3>1. r \in AllRows /\ r.from \in Nat /\ r.from <= q /\ r.cell \in cells /\ r.live
      BY <2>6 DEF LastBy, Rows
    <3>2. r.from > p
      <4> SUFFICES ASSUME r.from <= p PROVE FALSE
        BY <2>3, <3>1
      <4>1. ASSUME NEW s \in AllRows, s.id = r.id, s.from > r.from, s.from <= p PROVE FALSE
        <5>1. s.from <= q
          BY <2>3, <2>6, <4>1 DEF Rows
        <5> QED BY <4>1, <5>1 DEF LastBy
      <4>2. r \in LastBy(AllRows, p)
        BY <3>1, <4>1 DEF LastBy
      <4> QED BY <2>8, <3>1, <4>2
    <3>3. r \in RowsFrom(p, q)
      BY <2>6, <3>1, <3>2 DEF RowsFrom, SpatialRows
    <3> QED BY <3>1, <3>3 DEF ChangedIds
  <2>9. \/ \E n \in z.rows : n.id = x.id /\ n \notin a.rows
        \/ \E o \in a.rows : o.id = x.id /\ o \notin z.rows
    <3> DEFINE HasId(rows, i) == \E r \in rows : r.id = i
               onlyNew == {r.id : r \in {n \in z.rows : ~HasId(a.rows, n.id)}}
               onlyOld == {r.id : r \in {o \in a.rows : ~HasId(z.rows, o.id)}}
               both == {r.id : r \in {n \in z.rows : HasId(a.rows, n.id) /\ n \notin a.rows}}
    <3>1. x.id \in onlyNew \/ x.id \in onlyOld \/ x.id \in both
      BY DEF DiffActions
    <3>2. CASE x.id \in onlyNew
      BY <3>2
    <3>3. CASE x.id \in onlyOld
      BY <3>3
    <3>4. CASE x.id \in both
      BY <3>4
    <3> QED BY <3>1, <3>2, <3>3, <3>4
  <2>10. \A r : printed(r).id = r.id
    OBVIOUS
  <2> HIDE DEF printed, In
  <2>11. x.id \in ChangedIds(cells, p, q)
    <3>1. CASE \E n \in z.rows : n.id = x.id /\ n \notin a.rows
      BY <2>5, <2>8, <2>10, <3>1
    <3>2. CASE \E o \in a.rows : o.id = x.id /\ o \notin z.rows
      BY <2>5, <2>7, <2>10, <3>2
    <3> QED BY <2>9, <3>1, <3>2
  <2> QED BY <2>3, <2>11
<1> QED BY <1>1, HistoryTellsTheTruth, PTL
-----------------------------------------------------------------------------
(* Relations lie above their members. *)

LEMMA ContainingOne ==
  ASSUME NEW c
  PROVE  Containing({c}) = c
BY FS_Singleton DEF Containing

LEMMA ContainingIsPlace ==
  ASSUME NEW cells \in SUBSET Places
  PROVE  Containing(cells) \in Places
<1>1. CASE Cardinality(cells) = 1
  <2>1. cells # {}
    BY <1>1, FS_EmptySet
  <2> QED BY <1>1, <2>1 DEF Containing
<1>2. CASE Cardinality(cells) # 1
  BY <1>2 DEF Containing, Places
<1> QED BY <1>1, <1>2

(* The cell around more nodes is the same or the root. *)
LEMMA ContainingNests ==
  ASSUME NEW A, IsFiniteSet(A), NEW B \in SUBSET A, B # {}
  PROVE  Containing(A) \in {Containing(B), Root}
<1>1. CASE Cardinality(A) = 1
  <2>1. PICK c : A = {c}
    BY <1>1, FS_Singleton
  <2>2. B = {c}
    BY <2>1
  <2> QED BY <2>1, <2>2
<1>2. CASE Cardinality(A) # 1
  BY <1>2 DEF Containing
<1> QED BY <1>1, <1>2

(* The nodes of a member are nodes of the relation, and there are some. *)
LEMMA MemberNodes ==
  ASSUME NEW r \in Relations, NEW x \in Refs[r]
  PROVE  /\ x \in Ids /\ r \in Ids /\ r \notin Nodes
         /\ NodesOf(x) \subseteq NodesOf(r) /\ NodesOf(x) # {}
<1>1. x \in Nodes \cup Ways /\ r \in Ids /\ r \notin Nodes
  BY HistoryAssumption DEF Ids
<1>2. NodesOf(r) = UNION {IF m \in Nodes THEN {m} ELSE Refs[m] : m \in Refs[r]}
  BY <1>1 DEF NodesOf
<1>3. CASE x \in Nodes
  <2>1. NodesOf(x) = {x}
    BY <1>3 DEF NodesOf
  <2> QED BY <1>1, <1>2, <1>3, <2>1 DEF Ids
<1>4. CASE x \notin Nodes
  <2>1. x \in Ways /\ Refs[x] \subseteq Nodes /\ Refs[x] # {}
    BY <1>1, <1>4, HistoryAssumption
  <2>2. NodesOf(x) = Refs[x]
    BY <1>4, <2>1 DEF NodesOf
  <2> QED BY <1>1, <1>2, <1>4, <2>1, <2>2 DEF Ids
<1> QED BY <1>3, <1>4

LEMMA FitsContain ==
  ASSUME NEW state, Fits(state), NEW r \in Relations, NEW x \in Refs[r],
         state[r].live, state[x].live
  PROVE  state[r].cell \in {state[x].cell, Root}
<1> DEFINE place == [n \in Nodes |-> state[n].cell]
           A == {place[n] : n \in NodesOf(r)}
           B == {place[n] : n \in NodesOf(x)}
<1>1. /\ x \in Ids /\ r \in Ids /\ NodesOf(x) \subseteq NodesOf(r) /\ NodesOf(x) # {}
  BY MemberNodes
<1>2. state[r].cell = CellOf(r, place) /\ state[x].cell = CellOf(x, place)
  BY <1>1 DEF Fits
<1>3. IsFiniteSet(NodesOf(r))
  <2>1. NodesOf(r) \subseteq Ids
    BY <1>1, NodesOfAreNodes DEF Ids
  <2> QED BY <2>1, HistoryAssumption, FS_Subset
<1>4. IsFiniteSet(A)
  <2> DEFINE N == NodesOf(r)
             g == [n \in N |-> place[n]]
  <2>1. g \in [N -> A] /\ \A c \in A : \E n \in N : g[n] = c
    OBVIOUS
  <2> HIDE DEF N, g, A
  <2>2. g \in Surjection(N, A)
    BY <2>1, Fun_IsSurj
  <2> QED BY <1>3, <2>2, FS_Surjection DEF N
<1>5. B \in SUBSET A /\ B # {}
  BY <1>1
<1>6. CellOf(r, place) = Containing(A) /\ CellOf(x, place) = Containing(B)
  BY DEF CellOf
<1> HIDE DEF A, B, place
<1> QED BY <1>2, <1>4, <1>5, <1>6, ContainingNests

(* A batch leaves every element where its nodes put it: what it does not   *)
(* recompute has no node that it changes.                                  *)
LEMMA ResolvedFits ==
  ASSUME CurTyped, now \in Nat, Fits(cur), NEW t \in Nat, NEW b \in Batches(t)
  PROVE  Fits(Resolved(b))
<1> DEFINE S == DOMAIN b
           new == Resolved(b)
           moved == [n \in Nodes |-> IF n \in S THEN Final(b[n]).cell ELSE cur[n].cell]
           place == [n \in Nodes |-> new[n].cell]
           before == [n \in Nodes |-> cur[n].cell]
<1>1. S \subseteq Ids /\ IsLegal(b)
  BY BatchFacts
<1>2. ASSUME NEW i \in Ids
      PROVE  /\ i \in S => new[i].live = Final(b[i]).live /\ new[i].cell = NewCell(b, i)
             /\ i \notin S => new[i].live = cur[i].live
             /\ i \in Touched(S) => new[i].cell = NewCell(b, i)
             /\ i \notin S /\ i \notin Touched(S) => new[i].cell = cur[i].cell
             /\ new[i].live = LiveAfter(b, i)
  BY ResolvedIs, TouchedFacts DEF LiveAfter
<1>3. ASSUME NEW i \in Ids, i \notin Nodes, new[i].live, NEW y \in Refs[i]
      PROVE  y \in Ids /\ new[y].live
  <2>1. i \in Ways \cup Relations /\ y \in Ids /\ i \in Users(y)
    BY <1>3, HistoryAssumption DEF Ids, Users
  <2>2. LiveAfter(b, i)
    BY <1>2, <1>3
  <2>3. LiveAfter(b, y)
    <3>1. CASE i \in S
      BY <1>1, <1>3, <2>2, <3>1 DEF IsLegal
    <3>2. CASE i \notin S
      <4>1. cur[i].live
        BY <2>2, <3>2 DEF LiveAfter
      <4>2. cur[y].live
        BY <1>3, <4>1 DEF Fits
      <4>3. CASE y \notin S
        BY <4>2, <4>3 DEF LiveAfter
      <4>4. CASE y \in S
        <5>1. Len(b[y]) \in DOMAIN b[y] /\ Final(b[y]) = b[y][Len(b[y])]
          BY <4>4, FinalFacts
        <5>2. Final(b[y]).live
          BY <1>1, <2>1, <2>2, <4>4, <5>1 DEF IsLegal
        <5> QED BY <4>4, <5>2 DEF LiveAfter
      <4> QED BY <4>3, <4>4
    <3> QED BY <3>1, <3>2
  <2> QED BY <1>2, <2>1, <2>3
<1>4. ASSUME NEW i \in Ids, new[i].live, NEW n \in NodesOf(i)
      PROVE  n \in Nodes /\ new[n].live
  <2>1. n \in Nodes
    BY NodesOfAreNodes
  <2>2. CASE i \in Nodes
    BY <1>4, <2>1, <2>2 DEF NodesOf
  <2>3. CASE i \notin Nodes
    <3>1. PICK m \in Refs[i] : n \in IF m \in Nodes THEN {m} ELSE Refs[m]
      BY <2>3 DEF NodesOf
    <3>2. m \in Ids /\ new[m].live
      BY <1>3, <1>4, <2>3
    <3> QED BY <1>3, <2>1, <3>1, <3>2
  <2> QED BY <2>2, <2>3
<1>5. ASSUME NEW n \in Nodes, new[n].live PROVE place[n] = moved[n] /\ moved[n] \in Places
  <2>1. n \in Ids /\ n \notin Touched(S)
    BY TouchedFacts, HistoryAssumption DEF Ids
  <2>2. CASE n \in S
    <3>1. LiveAfter(b, n)
      BY <1>2, <1>5, <2>1
    <3>2. NewCell(b, n) = CellOf(n, moved)
      BY <3>1 DEF NewCell
    <3>3. {moved[m] : m \in NodesOf(n)} = {moved[n]}
      BY DEF NodesOf
    <3>4. CellOf(n, moved) = moved[n]
      BY <3>3, ContainingOne DEF CellOf
    <3>5. moved[n] = Final(b[n]).cell
      BY <2>2
    <3> QED BY <1>2, <2>1, <2>2, <3>2, <3>4, <3>5, FinalFacts
  <2>3. CASE n \notin S
    <3>1. cur[n].live
      BY <1>2, <1>5, <2>1, <2>3
    <3>2. cur[n].cell \in Places
      BY <2>1, <3>1 DEF Fits
    <3> QED BY <1>2, <2>1, <2>3, <3>2
  <2> QED BY <2>2, <2>3
<1>6. ASSUME NEW i \in Ids, new[i].live
      PROVE  CellOf(i, place) = CellOf(i, moved) /\ CellOf(i, moved) \in Places
  <2>1. \A n \in NodesOf(i) : place[n] = moved[n] /\ moved[n] \in Places
    BY <1>4, <1>5, <1>6
  <2> HIDE DEF place, moved
  <2>2. {place[n] : n \in NodesOf(i)} = {moved[n] : n \in NodesOf(i)}
    BY <2>1
  <2>3. {moved[n] : n \in NodesOf(i)} \in SUBSET Places
    BY <2>1
  <2> QED BY <2>2, <2>3, ContainingIsPlace DEF CellOf
<1>7. ASSUME NEW i \in Ids, new[i].live, i \in S \/ i \in Touched(S)
      PROVE  new[i].cell = CellOf(i, place) /\ new[i].cell \in Places
  <2>1. LiveAfter(b, i) /\ new[i].cell = NewCell(b, i)
    BY <1>2, <1>7
  <2>2. NewCell(b, i) = CellOf(i, moved)
    BY <2>1 DEF NewCell
  <2> QED BY <1>6, <1>7, <2>1, <2>2
<1>8. ASSUME NEW i \in Ids, new[i].live, i \notin S, i \notin Touched(S)
      PROVE  new[i].cell \in Places /\ (NodesOf(i) # {} => new[i].cell = CellOf(i, place))
  <2>1. cur[i].live /\ new[i].cell = cur[i].cell
    BY <1>2, <1>8
  <2>2. ASSUME NEW n \in NodesOf(i) PROVE n \notin S
    <3>1. CASE i \in Nodes
      BY <1>8, <3>1 DEF NodesOf
    <3>2. CASE i \notin Nodes
      <4>1. PICK m \in Refs[i] : n \in IF m \in Nodes THEN {m} ELSE Refs[m]
        BY <3>2 DEF NodesOf
      <4>2. i \in Ways \/ i \in Relations
        BY <3>2 DEF Ids
      <4>3. m \in Nodes \cup Ways /\ cur[m].live
        BY <2>1, <3>2, <4>2, HistoryAssumption DEF Fits
      <4>4. CASE m \in Nodes
        BY <1>8, <2>1, <4>1, <4>2, <4>4 DEF Touched, TouchedWays
      <4>5. CASE m \notin Nodes
        <5>1. m \in Ways /\ n \in Refs[m] /\ i \in Relations
          BY <4>1, <4>2, <4>3, <4>5, HistoryAssumption
        <5>2. m \notin S /\ m \notin TouchedWays(S)
          BY <1>8, <2>1, <5>1 DEF Touched
        <5> QED BY <4>3, <5>1, <5>2 DEF TouchedWays
      <4> QED BY <4>4, <4>5
    <3> QED BY <3>1, <3>2
  <2>3. {moved[n] : n \in NodesOf(i)} = {before[n] : n \in NodesOf(i)}
    <3>1. \A n \in NodesOf(i) : moved[n] = before[n]
      BY <2>2, NodesOfAreNodes
    <3> HIDE DEF moved, before
    <3> QED BY <3>1
  <2>4. CellOf(i, moved) = CellOf(i, before)
    BY <2>3 DEF CellOf
  <2>5. cur[i].cell \in Places /\ (NodesOf(i) # {} => cur[i].cell = CellOf(i, before))
    BY <2>1 DEF Fits
  <2> QED BY <1>6, <1>8, <2>1, <2>4, <2>5
<1> HIDE DEF new, place
<1>9. Fits(new)
  <2> SUFFICES ASSUME NEW i \in Ids, new[i].live
               PROVE  /\ new[i].cell \in Places
                      /\ NodesOf(i) # {} => new[i].cell = CellOf(i, [n \in Nodes |-> new[n].cell])
                      /\ i \notin Nodes => \A y \in Refs[i] : new[y].live
    BY DEF Fits
  <2> QED BY <1>3, <1>7, <1>8 DEF place
<1> QED BY <1>9 DEF new
(* At the present, rows and current state agree on who lies above whom. *)
LEMMA LastContains ==
  ASSUME NEW rows \in SUBSET Rows, NEW u, NEW state, Fits(state),
         \A i \in Ids : \A r \in rows :
           r.id = i /\ r \in LastBy(rows, u) =>
             r.live = state[i].live /\ (r.live => r.cell = state[i].cell)
  PROVE  \A r, x \in LastBy(rows, u) :
           r.live /\ x.live =>
             /\ x.cell \in Places
             /\ r.id \in Relations /\ x.id \in Refs[r.id] => r.cell \in {x.cell, Root}
<1> SUFFICES ASSUME NEW r \in LastBy(rows, u), NEW x \in LastBy(rows, u), r.live, x.live
             PROVE  /\ x.cell \in Places
                    /\ r.id \in Relations /\ x.id \in Refs[r.id] => r.cell \in {x.cell, Root}
  OBVIOUS
<1>1. r \in rows /\ x \in rows /\ r.id \in Ids /\ x.id \in Ids
  BY DEF LastBy, Rows
<1>2. /\ state[r.id].live /\ state[r.id].cell = r.cell
      /\ state[x.id].live /\ state[x.id].cell = x.cell
  BY <1>1
<1>3. x.cell \in Places
  BY <1>1, <1>2 DEF Fits
<1> QED BY <1>2, <1>3, FitsContain

(* The same cells at the times of earlier runs. *)
Nested(rows, u) ==
  \A r, x \in LastBy(rows, u) :
    r.live /\ x.live =>
      /\ x.cell \in Places
      /\ r.id \in Relations /\ x.id \in Refs[r.id] => r.cell \in {x.cell, Root}

LEMMA NestRun == NestInv /\ RunWithHistory => NestInv'
<1> SUFFICES ASSUME NestInv, RunWithHistory PROVE NestInv'
  OBVIOUS
<1>1. AtticInv /\ HistoryInv /\ LogInOrder /\ Fits(cur) /\ RelationsContain /\ TypeOK
  BY DEF NestInv, AtticInv, HistoryInv
<1>2. AtticInv' /\ HistoryInv' /\ LastIsCurrent'
  BY <1>1, AtticRun DEF AtticInv
<1>3. PICK t \in Nat : t > now /\ \E b \in Batches(t) : RunOf(t, b)
  BY <1>1, RunHasBatch
<1>4. PICK b \in Batches(t) : RunOf(t, b)
  BY <1>3
<1>5. cur' = Resolved(b) /\ now' = t /\ started' /\ CurTyped /\ now \in Nat
  BY <1>1, <1>4 DEF RunOf, TypeOK, CurTyped, AnyCell
<1>6. Fits(cur')
  BY <1>1, <1>5, ResolvedFits
<1> DEFINE H == HistoryBatch(b, t)
           e == [time |-> t, rows |-> H]
<1>7. /\ AllRows' = AllRows \cup H /\ AllRows' \in SUBSET Rows
      /\ \A r \in H : r \in Rows /\ r.from > now
  BY <1>1, <1>3, <1>4, RunAddsRows
<1>8. e \in Entries /\ log' = Append(log, e) /\ e.time = t
  BY <1>4, <1>7 DEF Entries, RunOf
<1> HIDE DEF e
<1>9. /\ DOMAIN log = 1..Len(log) /\ DOMAIN log' = 1..(Len(log) + 1) /\ Len(log) \in Nat
      /\ \A k \in DOMAIN log : log'[k] = log[k]
      /\ log'[Len(log) + 1] = e
  BY <1>1, <1>8, LogGrows
<1>10. Nested(AllRows', t)
  <2>1. LastBy(AllRows, now)' = LastBy(AllRows', t)
    BY <1>5 DEF LastBy
  <2>2. \A i \in Ids : \A r \in AllRows' :
          r.id = i /\ r \in LastBy(AllRows', t) =>
            r.live = cur'[i].live /\ (r.live => r.cell = cur'[i].cell)
    BY <1>2, <1>5, <2>1 DEF LastIsCurrent
  <2> QED BY <1>6, <1>7, <2>2, LastContains DEF Nested
<1>11. ASSUME NEW k \in DOMAIN log PROVE Nested(AllRows', log[k].time)
  <2>1. log[k].time \in Nat /\ log[k].time <= now
    BY <1>1, RunTime DEF LogInOrder
  <2>2. \A r \in H : r.from \in Nat /\ r.from > now
    BY <1>7 DEF Rows
  <2> HIDE DEF H
  <2>3. LastBy(AllRows \cup H, log[k].time) = LastBy(AllRows, log[k].time)
    BY <1>5, <2>1, <2>2, LastIsStable
  <2> QED BY <1>1, <1>7, <2>3 DEF Nested, RelationsContain
<1>12. \A k \in DOMAIN log' : Nested(AllRows', log'[k].time)
  <2> SUFFICES ASSUME NEW k \in DOMAIN log' PROVE Nested(AllRows', log'[k].time)
    OBVIOUS
  <2>1. k \in DOMAIN log \/ k = Len(log) + 1
    BY <1>9
  <2> QED BY <1>8, <1>9, <1>10, <1>11, <2>1
<1>13. RelationsContain'
  <2>1. \A u : LastBy(AllRows, u)' = LastBy(AllRows', u')
    BY DEF LastBy
  <2> QED BY <1>12, <2>1 DEF RelationsContain, Nested
<1>14. Fits(cur)'
  BY <1>6 DEF Fits
<1> QED BY <1>2, <1>13, <1>14 DEF NestInv

LEMMA NestOther == NestInv /\ (RunEmpty \/ Compact \/ UNCHANGED vars) => NestInv'
<1> SUFFICES ASSUME NestInv, RunEmpty \/ Compact \/ UNCHANGED vars PROVE NestInv'
  OBVIOUS
<1>1. AtticInv'
  BY AtticStep DEF NestInv, Next
<1>2. UNCHANGED <<cur, log>>
  BY DEF RunEmpty, Compact, vars
<1>3. RelationsContain /\ Fits(cur)
  BY DEF NestInv
<1>4. AllRows' = AllRows
  BY <1>2 DEF AllRows
<1>5. \A u : LastBy(AllRows, u)' = LastBy(AllRows', u')
  BY DEF LastBy
<1>6. RelationsContain'
  BY <1>2, <1>3, <1>4, <1>5 DEF RelationsContain
<1>7. Fits(cur)'
  BY <1>2, <1>3 DEF Fits
<1> QED BY <1>1, <1>6, <1>7 DEF NestInv

LEMMA NestBefore == NestInv /\ RunWithoutHistory => NestInv'
<1> SUFFICES ASSUME NestInv, RunWithoutHistory PROVE NestInv'
  OBVIOUS
<1>1. AtticInv /\ Fits(cur) /\ TypeOK /\ NoRowsYet
  BY DEF NestInv, AtticInv, HistoryInv
<1>2. AtticInv'
  BY <1>1, AtticRunBefore
<1>3. PICK t \in Upcoming(MaxEarly) : \E b \in Batches(t) : cur' = Resolved(b)
  BY DEF RunWithoutHistory
<1>4. t \in Nat /\ now \in Nat /\ CurTyped
  BY <1>1, UpcomingIsLater DEF TypeOK, CurTyped, AnyCell
<1>5. Fits(cur')
  BY <1>1, <1>3, <1>4, ResolvedFits
<1>6. DOMAIN log' = {}
  BY <1>1 DEF RunWithoutHistory, NoRowsYet
<1>7. RelationsContain'
  BY <1>6 DEF RelationsContain
<1>8. Fits(cur)'
  BY <1>5 DEF Fits
<1> QED BY <1>2, <1>7, <1>8 DEF NestInv

LEMMA NestStart == NestInv /\ (HistoryInit \/ HistoryBuild) => NestInv'
<1> SUFFICES ASSUME NestInv, HistoryInit \/ HistoryBuild PROVE NestInv'
  OBVIOUS
<1>1. AtticInv /\ Fits(cur) /\ TypeOK
  BY DEF NestInv, AtticInv, HistoryInv
<1>2. AtticInv' /\ LastIsCurrent'
  BY <1>1, AtticStart DEF AtticInv
<1>3. log' = <<[time |-> now, rows |-> CurrentRows]>> /\ UNCHANGED <<cur, now>> /\ started'
  BY DEF HistoryInit, HistoryBuild, Start
<1>4. DOMAIN log' = {1} /\ log'[1].time = now /\ log'[1].rows = CurrentRows
  BY <1>3
<1>5. AllRows' = CurrentRows /\ AllRows' \in SUBSET Rows
  BY <1>1, <1>4, CurrentRowsTyped DEF AllRows
<1>6. LastBy(AllRows, now)' = LastBy(AllRows', now)
  BY <1>3 DEF LastBy
<1>7. \A i \in Ids : \A r \in AllRows' :
        r.id = i /\ r \in LastBy(AllRows', now) =>
          r.live = cur[i].live /\ (r.live => r.cell = cur[i].cell)
  BY <1>2, <1>3, <1>6 DEF LastIsCurrent
<1>8. Nested(AllRows', now)
  BY <1>1, <1>5, <1>7, LastContains DEF Nested
<1>9. RelationsContain'
  <2>1. \A u : LastBy(AllRows, u)' = LastBy(AllRows', u')
    BY DEF LastBy
  <2> QED BY <1>4, <1>8, <2>1 DEF RelationsContain, Nested
<1>10. Fits(cur)'
  BY <1>1, <1>3 DEF Fits
<1> QED BY <1>2, <1>9, <1>10 DEF NestInv

LEMMA NestInit == Init => NestInv
<1> SUFFICES ASSUME Init PROVE NestInv
  OBVIOUS
<1>1. AtticInv /\ log = <<>>
  BY AtticInit DEF Init
<1>2. RelationsContain
  BY <1>1 DEF RelationsContain
<1>3. Fits(cur)
  <2> SUFFICES ASSUME NEW i \in Ids
               PROVE  /\ cur[i].cell \in Places
                      /\ NodesOf(i) # {} => cur[i].cell = CellOf(i, [n \in Nodes |-> cur[n].cell])
                      /\ i \notin Nodes => \A y \in Refs[i] : cur[y].live
    BY DEF Fits
  <2>1. \A x \in Ids : cur[x].cell = Home /\ cur[x].live
    BY DEF Init
  <2>2. Home \in Places
    BY HistoryAssumption DEF Places
  <2>3. ASSUME NodesOf(i) # {} PROVE CellOf(i, [n \in Nodes |-> cur[n].cell]) = Home
    <3>1. \A n \in NodesOf(i) : n \in Nodes /\ n \in Ids
      BY NodesOfAreNodes DEF Ids
    <3>2. {[n \in Nodes |-> cur[n].cell][m] : m \in NodesOf(i)} = {Home}
      BY <2>1, <2>3, <3>1
    <3> QED BY <3>2, ContainingOne DEF CellOf
  <2>4. i \notin Nodes => \A y \in Refs[i] : y \in Ids
    BY HistoryAssumption DEF Ids
  <2> QED BY <2>1, <2>2, <2>3, <2>4
<1> QED BY <1>1, <1>2, <1>3 DEF NestInv

(* In every state an element lies where its nodes put it, and at the time  *)
(* of every run a relation lies in a cell above its members' (the touched  *)
(* parents of _build_history_batch are all that a batch moves).            *)
THEOREM RelationsLieAbove == Spec => []NestInv
<1>1. NestInv /\ [Next]_vars => NestInv'
  BY NestRun, NestOther, NestBefore, NestStart DEF Next
<1> QED BY <1>1, NestInit, PTL DEF Spec

(* At the time of any run, going from an element to its relations finds    *)
(* all that had it as a member (backward_relation_ids_snapshot).           *)
THEOREM BackwardFindsEveryRelation == Spec => []BackwardFindsAll
<1>1. NestInv => BackwardFindsAll
  <2> SUFFICES ASSUME NestInv, NEW k \in DOMAIN log, NEW x \in Nodes \cup Ways,
                      x \in {v.id : v \in Visible(ByIdAt(log[k].time))}
               PROVE  BackwardAt(x, log[k].time)
                        = {r \in Relations : /\ r \in {v.id : v \in Visible(ByIdAt(log[k].time))}
                                             /\ x \in Refs[r]}
    BY DEF BackwardFindsAll
  <2> DEFINE t == log[k].time
             L == LastBy(AllRows, t)
             view(r) == [id |-> r.id, version |-> r.version, cell |-> r.cell]
             Live == {r \in L : r.live}
  <2>1. /\ AtticInv /\ t \in Nat /\ RelationsContain /\ HistoryInv /\ OneAtATime(AllRows)
        /\ AllRows \in SUBSET Rows
    BY RunTime, AllRowsTyped DEF NestInv, AtticInv, HistoryInv, LogInOrder
  <2>2. ByIdAt(t) = L
    BY <2>1, ByIdIsLast DEF ReadsAreLast
  <2>3. \A r : view(r).id = r.id /\ view(r).cell = r.cell
    OBVIOUS
  <2>4. ASSUME NEW R PROVE Visible(R) = {view(r) : r \in {q \in R : q.live}}
    BY DEF Visible
  <2> HIDE DEF view
  <2>5. {v.id : v \in Visible(ByIdAt(t))} = {r.id : r \in Live}
    BY <2>2, <2>3, <2>4
  <2>6. PICK y \in Live : y.id = x
    BY <2>5
  <2>7. RawAt({x}, t) = {r \in L : r.id = x}
    BY <2>1, RawIsLast
  <2>8. \A r \in L : r.id = x => r = y
    BY <2>1, <2>6, LastIsUnique
  <2>9. Visible(RawAt({x}, t)) = {view(y)}
    BY <2>4, <2>6, <2>7, <2>8
  <2> DEFINE above == AncestorsAndSelf(y.cell)
             found == {r \in Live : r.id \in Relations /\ r.cell \in above}
  <2>10. above \in SUBSET Places /\ above = {y.cell, Root}
    BY <2>1, <2>6 DEF AncestorsAndSelf, RelationsContain, Places
  <2>11. {r \in ScanOf(Relations, above, t) : r.live} = found
    <3>1. {r \in ScanOf(Relations, above, t) : r.live}
            = {r \in L : r.live /\ r.id \in Relations /\ r.cell \in above}
      BY <2>1, <2>10, ScanIsLast
    <3> QED BY <3>1
  <2>12. Visible(ScanOf(Relations, above, t)) = {view(r) : r \in found}
    BY <2>4, <2>11
  <2>13. BackwardAt(x, t) = {v.id : v \in {u \in {view(r) : r \in found} : x \in Refs[u.id]}}
    <3>1. UNION {Visible(ScanOf(Relations, AncestorsAndSelf(z.cell), t)) :
                   z \in Visible(RawAt({x}, t))} = {view(r) : r \in found}
      BY <2>3, <2>9, <2>12
    <3> QED BY <3>1 DEF BackwardAt
  <2>14. ASSUME NEW r \in Live, r.id \in Relations, x \in Refs[r.id] PROVE r.cell \in above
    BY <2>1, <2>6, <2>10, <2>14 DEF RelationsContain
  <2> HIDE DEF Live, above
  <2>15. BackwardAt(x, t) = {r \in Relations : r \in {q.id : q \in Live} /\ x \in Refs[r]}
    BY <2>3, <2>13, <2>14
  <2> QED BY <2>5, <2>15
<1> QED BY <1>1, RelationsLieAbove, PTL
===============================================================================
