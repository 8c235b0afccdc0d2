--------------------------- MODULE DeltaTiersProofs ---------------------------
(***************************************************************************)
(* For any number of elements, cells, diffs and hours: reads by id follow  *)
(* the diffs (DeltaTiers implements CurrentState), scans find every row    *)
(* and no base row that a tier replaces, and compaction keeps the two base *)
(* tables in agreement.                                                    *)
(***************************************************************************)
EXTENDS DeltaTiers, TLAPS

-----------------------------------------------------------------------------
(* Facts about tiers. *)

(* The row of an element in a merge is the newer one, with the older       *)
(* prev_cell (_merge_type).                                                *)
LEMMA MergeRow ==
  ASSUME NEW new, NEW old, IsTier(new), IsTier(old)
  PROVE  /\ IsTier(Merge(new, old))
         /\ DOMAIN Merge(new, old) = DOMAIN new \cup DOMAIN old
         /\ \A i \in DOMAIN new : SameData(Merge(new, old)[i], new[i])
         /\ \A i \in DOMAIN old \ DOMAIN new : Merge(new, old)[i] = old[i]
<1>1. DOMAIN Merge(new, old) = DOMAIN new \cup DOMAIN old
  BY DEF Merge
<1>2. \A i \in DOMAIN new : new[i] \in DeltaRows
  BY DEF IsTier
<1>3. \A i \in DOMAIN old : old[i] \in DeltaRows
  BY DEF IsTier
<1>4. ASSUME NEW i \in DOMAIN new \cup DOMAIN old
      PROVE  /\ Merge(new, old)[i] \in DeltaRows
             /\ i \in DOMAIN new => SameData(Merge(new, old)[i], new[i])
             /\ i \notin DOMAIN new => Merge(new, old)[i] = old[i]
  <2>1. CASE i \notin DOMAIN new
    BY <1>3, <2>1 DEF Merge, Has
  <2>2. CASE i \in DOMAIN new /\ i \notin DOMAIN old
    BY <1>2, <2>2 DEF Merge, Has, SameData
  <2>3. CASE i \in DOMAIN new /\ i \in DOMAIN old
    <3>1. Merge(new, old)[i] = [new[i] EXCEPT !.prev = old[i].prev]
      BY <2>3 DEF Merge, Has
    <3>2. new[i] \in DeltaRows /\ old[i] \in DeltaRows
      BY <1>2, <1>3, <2>3
    <3> QED BY <2>3, <3>1, <3>2 DEF DeltaRows, SameData
  <2> QED BY <2>1, <2>2, <2>3
<1>5. IsTier(Merge(new, old))
  <2>1. Merge(new, old) = [i \in DOMAIN Merge(new, old) |-> Merge(new, old)[i]]
    BY <1>1 DEF Merge
  <2>2. DOMAIN Merge(new, old) \subseteq Ids
    BY <1>1 DEF IsTier
  <2> QED BY <1>1, <1>4, <2>1, <2>2 DEF IsTier
<1> QED BY <1>1, <1>4, <1>5

(* The prev_cell of a merge is the older one (first write wins). *)
LEMMA MergePrev ==
  ASSUME NEW new, NEW old, IsTier(new), IsTier(old)
  PROVE  /\ \A i \in DOMAIN old : Merge(new, old)[i].prev = old[i].prev
         /\ \A i \in DOMAIN new \ DOMAIN old : Merge(new, old)[i].prev = new[i].prev
<1>1. ASSUME NEW i \in DOMAIN new, i \in DOMAIN old PROVE Merge(new, old)[i].prev = old[i].prev
  <2>1. Merge(new, old)[i] = [new[i] EXCEPT !.prev = old[i].prev]
    BY <1>1 DEF Merge, Has
  <2>2. new[i] \in DeltaRows
    BY DEF IsTier
  <2> QED BY <2>1, <2>2 DEF DeltaRows
<1> QED BY <1>1 DEF Merge, Has

(* An empty tier is a tier, and holds nothing. *)
LEMMA NoTierIsTier == IsTier(NoTier) /\ DOMAIN NoTier = {}
BY DEF IsTier, NoTier

(* The winning row of an element is a row of one of the tiers. *)
LEMMA WinnerIsRow ==
  ASSUME TypeOK, NEW i \in Ids, InDelta(i)
  PROVE  Winner(i) \in DeltaRows
BY DEF TypeOK, IsTier, InDelta, Winner, Has

(* A read by id returns a base row or a row made from a tier. *)
LEMMA ReadIsRow ==
  ASSUME TypeOK, NEW i \in Ids
  PROVE  ByIdRead(i) \in Rows
<1>1. CASE ~InDelta(i)
  BY <1>1 DEF ByIdRead, TypeOK
<1>2. CASE InDelta(i)
  <2>1. Winner(i) \in DeltaRows
    BY <1>2, WinnerIsRow
  <2> QED BY <1>2, <2>1 DEF ByIdRead, Rows, Absent, DeltaRows
<1> QED BY <1>1, <1>2

(* The elements a diff changes, and the row each gets (_extent_filter and  *)
(* _resolve).                                                              *)
LEMMA ResolvedDomain ==
  ASSUME NEW d, NEW s
  PROVE  DOMAIN Resolved(d, s) =
           {j \in Ids : d[j] \in Cells \/ (d[j] = NoCell /\ ByIdRead(j).cell # NoCell)}
BY DEF Resolved

LEMMA ResolvedRow ==
  ASSUME NEW d, NEW s, NEW i \in DOMAIN Resolved(d, s)
  PROVE  /\ d[i] = NoCell =>
              Resolved(d, s)[i] = [cell |-> ByIdRead(i).cell, deleted |-> TRUE,
                                   prev |-> ByIdRead(i).cell, seq |-> s]
         /\ d[i] # NoCell =>
              Resolved(d, s)[i] = [cell |-> d[i], deleted |-> FALSE,
                                   prev |-> ByIdRead(i).cell, seq |-> s]
<1>1. Resolved(d, s)[i] = [cell |-> IF d[i] = NoCell THEN ByIdRead(i).cell ELSE d[i],
                           deleted |-> d[i] = NoCell, prev |-> ByIdRead(i).cell, seq |-> s]
  BY DEF Resolved
<1> QED BY <1>1, Zenon

(* A resolved batch is a tier of its own. *)
LEMMA ResolvedIsTier ==
  ASSUME TypeOK, NEW d \in Diffs, NEW s \in Nat
  PROVE  IsTier(Resolved(d, s))
<1> DEFINE B == Resolved(d, s)
<1>1. DOMAIN B \subseteq Ids
  BY ResolvedDomain
<1>2. ASSUME NEW i \in DOMAIN B PROVE B[i] \in DeltaRows
  <2>1. i \in Ids /\ (d[i] \in Cells \/ (d[i] = NoCell /\ ByIdRead(i).cell # NoCell))
    BY ResolvedDomain
  <2>2. ByIdRead(i).cell \in Cells \cup {NoCell}
    BY <2>1, ReadIsRow DEF Rows, Absent
  <2>3. CASE d[i] = NoCell
    <3>1. B[i] = [cell |-> ByIdRead(i).cell, deleted |-> TRUE, prev |-> ByIdRead(i).cell, seq |-> s]
      BY <2>3, ResolvedRow
    <3>2. ByIdRead(i).cell \in Cells
      BY <2>1, <2>2, <2>3, TiersAssumption
    <3> HIDE DEF B
    <3> QED BY <3>1, <3>2 DEF DeltaRows
  <2>4. CASE d[i] # NoCell
    <3>1. B[i] = [cell |-> d[i], deleted |-> FALSE, prev |-> ByIdRead(i).cell, seq |-> s]
      BY <2>4, ResolvedRow
    <3> HIDE DEF B
    <3> QED BY <2>1, <2>2, <2>4, <3>1 DEF DeltaRows
  <2> QED BY <2>3, <2>4
<1>3. B = [i \in DOMAIN B |-> B[i]]
  BY DEF Resolved
<1> HIDE DEF B
<1> QED BY <1>1, <1>2, <1>3 DEF IsTier, B

-----------------------------------------------------------------------------
(* What a run does to the winning row of every element. *)

(* The batch's rows win; for the others, whether the deltas hold the       *)
(* element and with what data stays as it was.                             *)
Wins(B) ==
  /\ \A i \in DOMAIN B : InDelta(i)' /\ SameData(Winner(i)', B[i])
  /\ \A i \in Ids \ DOMAIN B :
       /\ InDelta(i)' <=> InDelta(i)
       /\ InDelta(i) => SameData(Winner(i)', Winner(i))

TiersTyped == IsTier(hour) /\ IsTier(day) /\ IsTier(week)

(* Within the hour. *)
LEMMA MergeIntoHourWins ==
  ASSUME TiersTyped, NEW B, NEW t, IsTier(B), MergeIntoHour(B, t)
  PROVE  TiersTyped' /\ Wins(B)
<1> DEFINE M == Merge(B, hour)
<1>1. /\ IsTier(M) /\ DOMAIN M = DOMAIN B \cup DOMAIN hour
      /\ \A i \in DOMAIN B : SameData(M[i], B[i])
      /\ \A i \in DOMAIN hour \ DOMAIN B : M[i] = hour[i]
  BY MergeRow DEF TiersTyped
<1>2. day' = day /\ week' = week /\ hour' = Written(M, hour)
  BY DEF MergeIntoHour
<1> HIDE DEF M
<1>3. CASE DOMAIN M = {}
  <2>1. hour' = hour /\ DOMAIN B = {} /\ DOMAIN hour = {}
    BY <1>1, <1>2, <1>3 DEF Written, IsPresent
  <2> QED BY <1>2, <2>1 DEF TiersTyped, IsTier, Wins, InDelta, Has, Winner, SameData
<1>4. CASE DOMAIN M # {}
  <2>1. hour' = M
    BY <1>2, <1>4 DEF Written, IsPresent
  <2>2. TiersTyped'
    BY <1>1, <1>2, <2>1 DEF TiersTyped, IsTier
  <2> QED BY <1>1, <1>2, <2>1, <2>2 DEF Wins, InDelta, Has, Winner, SameData
<1> QED BY <1>3, <1>4

(* Over an hour boundary. *)
LEMMA FoldHourWins ==
  ASSUME TiersTyped, NEW B, NEW t, IsTier(B), FoldHour(B, t)
  PROVE  TiersTyped' /\ Wins(B)
<1> DEFINE M == Merge(hour, day)
<1>1. /\ IsTier(M) /\ DOMAIN M = DOMAIN hour \cup DOMAIN day
      /\ \A i \in DOMAIN hour : SameData(M[i], hour[i])
      /\ \A i \in DOMAIN day \ DOMAIN hour : M[i] = day[i]
  BY MergeRow DEF TiersTyped
<1>2. day' = M /\ week' = week /\ hour' = Written(B, hour)
  BY DEF FoldHour
<1> HIDE DEF M
<1>3. CASE DOMAIN B = {}
  <2>1. hour' = hour
    BY <1>2, <1>3 DEF Written, IsPresent
  <2> QED BY <1>1, <1>2, <1>3, <2>1 DEF TiersTyped, IsTier, Wins, InDelta, Has, Winner, SameData
<1>4. CASE DOMAIN B # {}
  <2>1. hour' = B
    BY <1>2, <1>4 DEF Written, IsPresent
  <2>2. TiersTyped'
    BY <1>1, <1>2, <2>1 DEF TiersTyped, IsTier
  <2> QED BY <1>1, <1>2, <2>1, <2>2 DEF TiersTyped, IsTier, Wins, InDelta, Has, Winner, SameData
<1> QED BY <1>3, <1>4

(* Over a day boundary. *)
LEMMA FoldDayWins ==
  ASSUME TiersTyped, NEW B, NEW t, IsTier(B), FoldDay(B, t)
  PROVE  TiersTyped' /\ Wins(B)
<1> DEFINE M == Merge(hour, day)
           W == Merge(M, week)
<1>1. /\ IsTier(M) /\ DOMAIN M = DOMAIN hour \cup DOMAIN day
      /\ \A i \in DOMAIN hour : SameData(M[i], hour[i])
      /\ \A i \in DOMAIN day \ DOMAIN hour : M[i] = day[i]
  BY MergeRow DEF TiersTyped
<1> HIDE DEF M
<1>2. /\ IsTier(W) /\ DOMAIN W = DOMAIN M \cup DOMAIN week
      /\ \A i \in DOMAIN M : SameData(W[i], M[i])
      /\ \A i \in DOMAIN week \ DOMAIN M : W[i] = week[i]
  <2>1. IsTier(M) /\ IsTier(week)
    BY <1>1 DEF TiersTyped
  <2> QED BY <2>1, MergeRow
<1>3. week' = W /\ day' = Written(B, day) /\ hour' = Written(B, hour)
  BY DEF FoldDay, M
<1> HIDE DEF W
<1>4. CASE DOMAIN B = {}
  <2>1. hour' = hour /\ day' = day
    BY <1>3, <1>4 DEF Written, IsPresent
  <2> QED BY <1>1, <1>2, <1>3, <1>4, <2>1
      DEF TiersTyped, IsTier, Wins, InDelta, Has, Winner, SameData
<1>5. CASE DOMAIN B # {}
  <2>1. hour' = B /\ day' = B
    BY <1>3, <1>5 DEF Written, IsPresent
  <2>2. TiersTyped'
    BY <1>2, <1>3, <2>1 DEF TiersTyped, IsTier
  <2> QED BY <1>1, <1>2, <1>3, <2>1, <2>2
      DEF TiersTyped, IsTier, Wins, InDelta, Has, Winner, SameData
<1> QED BY <1>4, <1>5

(* Whatever boundary the batch crosses. *)
LEMMA RunWins ==
  ASSUME TypeOK, RunOnce
  PROVE  TiersTyped' /\ Wins(Resolved(diff', seq'))
<1>1. IsTier(Resolved(diff', seq'))
  <2>1. diff' \in Diffs /\ seq' \in Nat
    BY DEF RunOnce, TypeOK
  <2> QED BY <2>1, ResolvedIsTier
<1>2. TiersTyped
  BY DEF TypeOK, TiersTyped
<1> QED BY <1>1, <1>2, MergeIntoHourWins, FoldHourWins, FoldDayWins DEF RunOnce

-----------------------------------------------------------------------------
(* Type correctness. *)

(* A run keeps every variable in its type. *)
LEMMA TypeRunOnce == TypeOK /\ RunOnce => TypeOK'
<1> SUFFICES ASSUME TypeOK, RunOnce PROVE TypeOK'
  OBVIOUS
<1>1. TiersTyped'
  BY RunWins
<1>2. hourTime' \in Nat /\ dayTime' \in Nat
  BY DEF TypeOK, RunOnce, MergeIntoHour, FoldHour, FoldDay, WrittenTime
<1> QED BY <1>1, <1>2 DEF TypeOK, TiersTyped, RunOnce

(* So does compaction. *)
LEMMA TypeCompact == TypeOK /\ Compact => TypeOK'
<1> SUFFICES ASSUME TypeOK, Compact PROVE TypeOK'
  OBVIOUS
<1>1. byid' \in [Ids -> Rows]
  BY ReadIsRow DEF Compact
<1>2. ASSUME NEW c \in Cells PROVE Compacted(c) \subseteq [id : Ids, seq : Nat]
  <2>1. \A i \in Ids : InDelta(i) => Winner(i).seq \in Nat
    BY WinnerIsRow DEF DeltaRows
  <2> QED BY <2>1 DEF Compacted, TypeOK
<1>3. spatial' \in [Cells -> SUBSET [id : Ids, seq : Nat]]
  BY <1>2 DEF Compact, TypeOK
<1>4. IsTier(hour)' /\ IsTier(day)' /\ IsTier(week)'
  BY NoTierIsTier DEF Compact, IsTier
<1> QED BY <1>1, <1>3, <1>4 DEF TypeOK, Compact

(* A freshly built root is well typed. *)
LEMMA TypeInit == Init => TypeOK
<1> SUFFICES ASSUME Init PROVE TypeOK
  OBVIOUS
<1>1. byid \in [Ids -> Rows]
  BY DEF Init, Rows, Absent
<1>2. spatial \in [Cells -> SUBSET [id : Ids, seq : Nat]]
  BY DEF Init
<1>3. diff \in Diffs
  BY DEF Init, Diffs
<1> QED BY <1>1, <1>2, <1>3, NoTierIsTier DEF TypeOK, Init

(* Base tables, tiers, timestamps and sequence keep their types. *)
THEOREM TiersTypes == Spec => []TypeOK
<1>1. TypeOK /\ UNCHANGED vars => TypeOK'
  BY DEF TypeOK, IsTier, vars, tiers
<1>2. TypeOK /\ [Next]_vars => TypeOK'
  BY <1>1, TypeRunOnce, TypeCompact DEF Next
<1> QED BY TypeInit, <1>2, PTL DEF Spec

-----------------------------------------------------------------------------
(* Refinement of CurrentState. *)

(* A run changes what the diff says and nothing else. *)
LEMMA RunFollowsDiff ==
  ASSUME TypeOK, RunOnce, NEW i \in Ids
  PROVE  ByIdRead(i)' = State!After(diff', seq', i)
<1> DEFINE d == diff'
           s == seq'
           B == Resolved(d, s)
<1>1. d \in Diffs /\ s \in Nat /\ byid' = byid
  BY DEF RunOnce, TypeOK
<1>2. Wins(B)
  BY RunWins
<1>3. DOMAIN B = {j \in Ids : d[j] \in Cells \/ (d[j] = NoCell /\ ByIdRead(j).cell # NoCell)}
  BY ResolvedDomain
<1>4. ASSUME i \in DOMAIN B
      PROVE  /\ d[i] = NoCell => B[i].deleted = TRUE
             /\ d[i] # NoCell => B[i].deleted = FALSE /\ B[i].cell = d[i] /\ B[i].seq = s
  <2> HIDE DEF d, s
  <2>1. CASE d[i] = NoCell
    <3>1. B[i] = [cell |-> ByIdRead(i).cell, deleted |-> TRUE, prev |-> ByIdRead(i).cell, seq |-> s]
      BY <1>4, <2>1, ResolvedRow
    <3> QED BY <2>1, <3>1
  <2>2. CASE d[i] # NoCell
    <3>1. B[i] = [cell |-> d[i], deleted |-> FALSE, prev |-> ByIdRead(i).cell, seq |-> s]
      BY <1>4, <2>2, ResolvedRow
    <3> QED BY <2>2, <3>1
  <2> QED BY <2>1, <2>2
<1> HIDE DEF B, d, s
<1>5. CASE i \notin DOMAIN B
  <2>1. ByIdRead(i)' = ByIdRead(i)
    <3>1. (InDelta(i)' <=> InDelta(i)) /\ (InDelta(i) => SameData(Winner(i)', Winner(i)))
      BY <1>2, <1>5 DEF Wins
    <3>2. CASE ~InDelta(i)
      BY <1>1, <3>1, <3>2 DEF ByIdRead
    <3>3. CASE InDelta(i)
      BY <3>1, <3>3 DEF ByIdRead, SameData, Absent
    <3> QED BY <3>2, <3>3
  <2>2. CASE d[i] = Same
    BY <2>1, <2>2, TiersAssumption DEF State!After, Current, d
  <2>3. CASE d[i] # Same
    <3>1. d[i] = NoCell /\ ByIdRead(i).cell = NoCell
      BY <1>1, <1>3, <1>5, <2>3 DEF Diffs
    <3>2. State!After(diff', seq', i) = Absent
      BY <3>1, <2>3, TiersAssumption DEF State!After, State!Absent, Absent, d, s
    <3>3. ByIdRead(i) = Absent
      BY <3>1, ReadIsRow, TiersAssumption DEF Rows
    <3> QED BY <2>1, <3>2, <3>3
  <2> QED BY <2>2, <2>3
<1>6. CASE i \in DOMAIN B
  <2>1. ByIdRead(i)' = IF B[i].deleted THEN Absent ELSE [cell |-> B[i].cell, seq |-> B[i].seq]
    BY <1>2, <1>6 DEF Wins, SameData, ByIdRead, Absent
  <2>2. d[i] # Same
    BY <1>3, <1>6, TiersAssumption
  <2> QED BY <1>4, <1>6, <2>1, <2>2 DEF State!After, State!Absent, Absent, d, s
<1> QED BY <1>5, <1>6

(* A freshly built root shows its base tables. *)
LEMMA InitRefines == Init => State!Init
<1> SUFFICES ASSUME Init PROVE State!Init
  OBVIOUS
<1>1. \A i \in Ids : ByIdRead(i) = byid[i]
  BY NoTierIsTier DEF Init, ByIdRead, InDelta, Has
<1>2. Current \in [Ids -> {[cell |-> c, seq |-> 0] : c \in Cells \cup {NoCell}}]
  BY <1>1 DEF Current, Init
<1> QED BY <1>2 DEF State!Init, Init

(* Applying a batch is applying its diff. *)
LEMMA RunRefines == TypeOK /\ RunOnce => State!Apply
<1> SUFFICES ASSUME TypeOK, RunOnce PROVE State!Apply
  OBVIOUS
<1>1. Current' = [i \in Ids |-> State!After(diff', seq', i)]
  BY RunFollowsDiff DEF Current
<1>2. seq < MaxSeq /\ seq' = seq + 1 /\ diff' \in Diffs
  BY DEF RunOnce
<1> QED BY <1>1, <1>2 DEF State!Apply, State!Diffs, Diffs

(* Compaction is invisible to reads by id. *)
LEMMA CompactRefines == Compact => UNCHANGED <<Current, seq, diff>>
<1> SUFFICES ASSUME Compact PROVE UNCHANGED <<Current, seq, diff>>
  OBVIOUS
<1>1. ASSUME NEW i \in Ids PROVE ByIdRead(i)' = ByIdRead(i)
  <2>1. ~InDelta(i)'
    BY NoTierIsTier DEF Compact, InDelta, Has
  <2>2. byid'[i] = ByIdRead(i)
    BY DEF Compact
  <2> QED BY <2>1, <2>2 DEF ByIdRead
<1>2. Current' = Current
  BY <1>1 DEF Current
<1> QED BY <1>2 DEF Compact

(* Reads by id follow the diffs exactly, through every merge, fold and     *)
(* compaction: DeltaTiers implements CurrentState.                         *)
THEOREM ReadsFollowDiffs == Spec => FollowsDiffs
<1>1. UNCHANGED vars => UNCHANGED <<Current, seq, diff>>
  <2> SUFFICES ASSUME UNCHANGED vars PROVE UNCHANGED <<Current, seq, diff>>
    OBVIOUS
  <2>1. UNCHANGED <<byid, hour, day, week, seq, diff>>
    BY DEF vars, tiers
  <2>2. Current' = Current
    BY <2>1 DEF Current, ByIdRead, InDelta, Winner, Has, Absent
  <2> QED BY <2>1, <2>2
<1>2. TypeOK /\ [Next]_vars => [State!Apply]_<<Current, seq, diff>>
  BY <1>1, RunRefines, CompactRefines DEF Next
<1> QED BY InitRefines, TiersTypes, <1>2, PTL DEF Spec, FollowsDiffs, State!Spec

-----------------------------------------------------------------------------
(* Scans and compaction.  TiersInv is inductive. *)

(* Hours are counted into days in order. *)
LEMMA DivMonotone ==
  ASSUME NEW a \in Nat, NEW b \in Nat, a <= b
  PROVE  a \div HoursPerDay <= b \div HoursPerDay
<1>1. HoursPerDay \in Nat /\ HoursPerDay > 0
  BY TiersAssumption
<1> QED BY <1>1

LEMMA DayIsNat ==
  ASSUME NEW a \in Nat
  PROVE  a \div HoursPerDay \in Nat
<1>1. HoursPerDay \in Nat /\ HoursPerDay > 0
  BY TiersAssumption
<1> QED BY <1>1

(* Every row of a batch leaves the cell in which reads by id find the      *)
(* element (_resolve's prev_cell).                                         *)
Leaves(B) ==
  \A i \in DOMAIN B :
    /\ ~InDelta(i) => B[i].prev = byid[i].cell
    /\ InDelta(i) => Winner(i).deleted \/ B[i].prev = Winner(i).cell

LEMMA ResolvedLeaves ==
  ASSUME TypeOK, NEW d \in Diffs, NEW s \in Nat
  PROVE  Leaves(Resolved(d, s))
<1> SUFFICES ASSUME NEW i \in DOMAIN Resolved(d, s)
             PROVE  /\ ~InDelta(i) => Resolved(d, s)[i].prev = byid[i].cell
                    /\ InDelta(i) => Winner(i).deleted \/ Resolved(d, s)[i].prev = Winner(i).cell
  BY DEF Leaves
<1>1. Resolved(d, s)[i].prev = ByIdRead(i).cell
  <2>1. CASE d[i] = NoCell
    BY <2>1, ResolvedRow
  <2>2. CASE d[i] # NoCell
    BY <2>2, ResolvedRow
  <2> QED BY <2>1, <2>2
<1>2. ~InDelta(i) => ByIdRead(i) = byid[i]
  BY DEF ByIdRead
<1>3. InDelta(i) /\ ~Winner(i).deleted => ByIdRead(i).cell = Winner(i).cell
  BY DEF ByIdRead
<1> QED BY <1>1, <1>2, <1>3

(* A merge within the hour.  No tier repeats another then, because the     *)
(* hour tier is of this hour or there is none.                             *)
LEMMA MergeIntoHourChain ==
  ASSUME TiersInv, NEW B, IsTier(B), Leaves(B), now' \in Nat, now' >= now, byid' = byid,
         MergeIntoHour(B, now')
  PROVE  TimesInv' /\ ChainInv'
<1> DEFINE M == Merge(B, hour)
<1>1. /\ IsTier(M) /\ DOMAIN M = DOMAIN B \cup DOMAIN hour
      /\ \A i \in DOMAIN hour \ DOMAIN B : M[i] = hour[i]
      /\ \A i \in DOMAIN hour : M[i].prev = hour[i].prev
      /\ \A i \in DOMAIN B \ DOMAIN hour : M[i].prev = B[i].prev
  <2>1. IsTier(hour)
    BY DEF TiersInv, TypeOK
  <2>2. IsTier(M) /\ DOMAIN M = DOMAIN B \cup DOMAIN hour
    BY <2>1, MergeRow
  <2>3. \A i \in DOMAIN hour \ DOMAIN B : M[i] = hour[i]
    BY <2>1, MergeRow
  <2>4. \A i \in DOMAIN hour : M[i].prev = hour[i].prev
    BY <2>1, MergePrev
  <2>5. \A i \in DOMAIN B \ DOMAIN hour : M[i].prev = B[i].prev
    BY <2>1, MergePrev
  <2> QED BY <2>2, <2>3, <2>4, <2>5
<1>2. /\ day' = day /\ week' = week /\ dayTime' = dayTime
      /\ hour' = Written(M, hour) /\ hourTime' = WrittenTime(M, now', hourTime)
      /\ ~IsPresent(hour) \/ hourTime = now'
  BY DEF MergeIntoHour, HourCrossed
<1>3. hourTime \in Nat /\ dayTime \in Nat /\ now \in Nat /\ hourTime <= now /\ dayTime <= now
  BY DEF TiersInv, TypeOK, TimesInv
<1> HIDE DEF M
<1>4. CASE DOMAIN M = {}
  <2>1. hour' = hour /\ hourTime' = hourTime /\ DOMAIN hour = {}
    BY <1>1, <1>2, <1>4 DEF Written, WrittenTime, IsPresent
  <2>2. DOMAIN day = {} /\ DOMAIN week = {}
    BY <2>1 DEF TiersInv, TimesInv, IsPresent
  <2>3. TimesInv'
    BY <1>2, <1>3, <2>1, <2>2 DEF TimesInv, IsPresent
  <2> QED BY <1>2, <2>1, <2>2, <2>3
      DEF ChainInv, FromBase, HourOnDay, AboveOnWeek, InDelta, Has
<1>5. CASE DOMAIN M # {}
  <2>1. hour' = M /\ hourTime' = now'
    BY <1>2, <1>5 DEF Written, WrittenTime, IsPresent
  <2>2. TimesInv'
    BY <1>2, <1>3, <1>5, <2>1 DEF TimesInv, IsPresent
  <2>3. ASSUME NEW i \in Ids, Has(hour, i), Has(day, i) PROVE Continues(hour[i], day[i])
    BY <1>2, <1>3, <2>3 DEF TiersInv, ChainInv, HourOnDay, HourRepeats, Has, IsPresent
  <2>4. ASSUME NEW i \in Ids, Has(hour, i) \/ Has(day, i), Has(week, i)
        PROVE  Continues(AboveWeek(i), week[i])
    <3>1. IsPresent(hour)
      BY <2>4 DEF TiersInv, TimesInv, IsPresent, Has
    <3> QED BY <1>2, <1>3, <2>4, <3>1 DEF TiersInv, ChainInv, AboveOnWeek, DayRepeats
  <2>5. ASSUME NEW i \in Ids PROVE FromBase(i)'
    <3>1. FromBase(i)
      BY DEF TiersInv, ChainInv
    <3> QED BY <1>1, <1>2, <2>1, <3>1 DEF FromBase, InDelta, Oldest, Has, Leaves
  <2>6. ASSUME NEW i \in Ids PROVE HourOnDay(i)'
    <3> SUFFICES ASSUME i \in DOMAIN M, i \in DOMAIN day
                 PROVE  Continues(M[i], day[i])
      BY <1>2, <2>1 DEF HourOnDay, Has, Continues
    <3> QED BY <1>1, <2>3 DEF Continues, Has, Leaves, InDelta, Winner
  <2>7. ASSUME NEW i \in Ids PROVE AboveOnWeek(i)'
    <3> SUFFICES ASSUME i \in DOMAIN M \/ i \in DOMAIN day, i \in DOMAIN week
                 PROVE  Continues(IF i \in DOMAIN day THEN day[i] ELSE M[i], week[i])
      BY <1>2, <2>1 DEF AboveOnWeek, AboveWeek, Has, Continues
    <3> QED BY <1>1, <2>4 DEF Continues, AboveWeek, Has, Leaves, InDelta, Winner
  <2> QED BY <2>2, <2>5, <2>6, <2>7 DEF ChainInv
<1> QED BY <1>4, <1>5

(* A fold of the hour.  No tier repeats the week tier then, because the    *)
(* day has not ended.                                                      *)
LEMMA FoldHourChain ==
  ASSUME TiersInv, NEW B, IsTier(B), Leaves(B), now' \in Nat, now' >= now, byid' = byid,
         FoldHour(B, now')
  PROVE  TimesInv' /\ ChainInv'
<1> DEFINE M == Merge(hour, day)
<1>1. /\ DOMAIN M = DOMAIN hour \cup DOMAIN day
      /\ \A i \in DOMAIN hour : SameData(M[i], hour[i])
      /\ \A i \in DOMAIN day \ DOMAIN hour : M[i] = day[i]
      /\ \A i \in DOMAIN day : M[i].prev = day[i].prev
      /\ \A i \in DOMAIN hour \ DOMAIN day : M[i].prev = hour[i].prev
  <2>1. IsTier(hour) /\ IsTier(day)
    BY DEF TiersInv, TypeOK
  <2>2. DOMAIN M = DOMAIN hour \cup DOMAIN day
    BY <2>1, MergeRow
  <2>3. \A i \in DOMAIN hour : SameData(M[i], hour[i])
    BY <2>1, MergeRow
  <2>4. \A i \in DOMAIN day \ DOMAIN hour : M[i] = day[i]
    BY <2>1, MergeRow
  <2>5. \A i \in DOMAIN day : M[i].prev = day[i].prev
    BY <2>1, MergePrev
  <2>6. \A i \in DOMAIN hour \ DOMAIN day : M[i].prev = hour[i].prev
    BY <2>1, MergePrev
  <2> QED BY <2>2, <2>3, <2>4, <2>5, <2>6
<1>2. /\ day' = M /\ week' = week /\ dayTime' = hourTime
      /\ hour' = Written(B, hour) /\ hourTime' = WrittenTime(B, now', hourTime)
      /\ IsPresent(hour) /\ hourTime # now'
      /\ ~IsPresent(day) \/ dayTime \div HoursPerDay = now' \div HoursPerDay
  BY DEF FoldHour, HourCrossed, DayCrossed
<1>3. hourTime \in Nat /\ dayTime \in Nat /\ now \in Nat /\ hourTime <= now /\ dayTime <= now
  BY DEF TiersInv, TypeOK, TimesInv
<1> HIDE DEF M
<1>4. ~DayRepeats
  <2>1. now \div HoursPerDay <= now' \div HoursPerDay
    BY <1>3, DivMonotone
  <2>2. /\ dayTime \div HoursPerDay \in Nat /\ now \div HoursPerDay \in Nat
        /\ now' \div HoursPerDay \in Nat
    BY <1>3, DayIsNat
  <2> QED BY <1>2, <2>1, <2>2 DEF DayRepeats
<1>5. ASSUME NEW i \in Ids, Has(hour, i) \/ Has(day, i), Has(week, i)
      PROVE  Continues(AboveWeek(i), week[i])
  BY <1>4, <1>5 DEF TiersInv, ChainInv, AboveOnWeek
<1>6. ASSUME NEW i \in Ids, Has(hour, i) \/ Has(day, i)
      PROVE  M[i].prev = AboveWeek(i).prev
  BY <1>1, <1>6 DEF AboveWeek, Has
<1>7. ASSUME NEW i \in Ids, Has(hour, i) \/ Has(day, i)
      PROVE  SameData(M[i], Winner(i))
  BY <1>1, <1>7 DEF Winner, Has, SameData
<1>8. ASSUME NEW i \in Ids, i \in DOMAIN M, i \in DOMAIN week
      PROVE  Continues(M[i], week[i])
  BY <1>1, <1>5, <1>6, <1>8 DEF Continues, Has
<1>9. CASE DOMAIN B = {}
  <2>1. hour' = hour /\ hourTime' = hourTime
    BY <1>2, <1>9 DEF Written, WrittenTime, IsPresent
  <2>2. TimesInv'
    BY <1>2, <1>3, <2>1 DEF TimesInv, IsPresent
  <2>3. HourRepeats'
    BY <1>2, <1>3, <2>1 DEF HourRepeats
  <2>4. ASSUME NEW i \in Ids PROVE FromBase(i)'
    <3>1. FromBase(i)
      BY DEF TiersInv, ChainInv
    <3> QED BY <1>1, <1>2, <1>6, <2>1, <3>1 DEF FromBase, InDelta, Oldest, Has, AboveWeek
  <2>5. ASSUME NEW i \in Ids PROVE HourOnDay(i)'
    BY <1>1, <1>2, <2>1, <2>3 DEF HourOnDay, Has, Winner, SameData
  <2>6. ASSUME NEW i \in Ids PROVE AboveOnWeek(i)'
    BY <1>1, <1>2, <1>8, <2>1 DEF AboveOnWeek, AboveWeek, Has
  <2> QED BY <2>2, <2>4, <2>5, <2>6 DEF ChainInv
<1>10. CASE DOMAIN B # {}
  <2>1. hour' = B /\ hourTime' = now'
    BY <1>2, <1>10 DEF Written, WrittenTime, IsPresent
  <2>2. TimesInv'
    BY <1>2, <1>3, <1>10, <2>1 DEF TimesInv, IsPresent
  <2>3. ASSUME NEW i \in Ids PROVE FromBase(i)'
    <3>1. FromBase(i)
      BY DEF TiersInv, ChainInv
    <3>2. i \in DOMAIN B /\ ~InDelta(i) => B[i].prev = byid[i].cell
      BY DEF Leaves
    <3> QED BY <1>1, <1>2, <1>6, <2>1, <3>1, <3>2 DEF FromBase, InDelta, Oldest, Has, AboveWeek
  <2>4. ASSUME NEW i \in Ids PROVE HourOnDay(i)'
    <3> SUFFICES ASSUME i \in DOMAIN B, i \in DOMAIN M
                 PROVE  Continues(B[i], M[i])
      BY <1>2, <2>1 DEF HourOnDay, Has, Continues
    <3>1. InDelta(i) /\ SameData(M[i], Winner(i))
      BY <1>1, <1>7 DEF InDelta, Has
    <3> QED BY <3>1 DEF Leaves, Continues, SameData
  <2>5. ASSUME NEW i \in Ids PROVE AboveOnWeek(i)'
    <3> SUFFICES ASSUME i \in DOMAIN B \/ i \in DOMAIN M, i \in DOMAIN week
                 PROVE  Continues(IF i \in DOMAIN M THEN M[i] ELSE B[i], week[i])
      BY <1>2, <2>1 DEF AboveOnWeek, AboveWeek, Has, Continues
    <3>1. CASE i \in DOMAIN M
      BY <1>8, <3>1
    <3>2. CASE i \notin DOMAIN M
      BY <1>1, <3>2 DEF Continues, Has, Leaves, InDelta, Winner
    <3> QED BY <3>1, <3>2
  <2> QED BY <2>2, <2>3, <2>4, <2>5 DEF ChainInv
<1> QED BY <1>9, <1>10

(* A fold of the day: week holds the winner of every element. *)
LEMMA FoldDayChain ==
  ASSUME TiersInv, NEW B, IsTier(B), Leaves(B), now' \in Nat, now' >= now, byid' = byid,
         FoldDay(B, now')
  PROVE  TimesInv' /\ ChainInv'
<1> DEFINE M == Merge(hour, day)
           W == Merge(M, week)
<1>1. /\ IsTier(M) /\ DOMAIN M = DOMAIN hour \cup DOMAIN day
      /\ \A i \in DOMAIN hour : SameData(M[i], hour[i])
      /\ \A i \in DOMAIN day \ DOMAIN hour : M[i] = day[i]
      /\ \A i \in DOMAIN day : M[i].prev = day[i].prev
      /\ \A i \in DOMAIN hour \ DOMAIN day : M[i].prev = hour[i].prev
  <2>1. IsTier(hour) /\ IsTier(day)
    BY DEF TiersInv, TypeOK
  <2>2. IsTier(M) /\ DOMAIN M = DOMAIN hour \cup DOMAIN day
    BY <2>1, MergeRow
  <2>3. \A i \in DOMAIN hour : SameData(M[i], hour[i])
    BY <2>1, MergeRow
  <2>4. \A i \in DOMAIN day \ DOMAIN hour : M[i] = day[i]
    BY <2>1, MergeRow
  <2>5. \A i \in DOMAIN day : M[i].prev = day[i].prev
    BY <2>1, MergePrev
  <2>6. \A i \in DOMAIN hour \ DOMAIN day : M[i].prev = hour[i].prev
    BY <2>1, MergePrev
  <2> QED BY <2>2, <2>3, <2>4, <2>5, <2>6
<1> HIDE DEF M
<1>2. /\ DOMAIN W = DOMAIN M \cup DOMAIN week
      /\ \A i \in DOMAIN M : SameData(W[i], M[i])
      /\ \A i \in DOMAIN week \ DOMAIN M : W[i] = week[i]
      /\ \A i \in DOMAIN week : W[i].prev = week[i].prev
      /\ \A i \in DOMAIN M \ DOMAIN week : W[i].prev = M[i].prev
  <2>1. IsTier(M) /\ IsTier(week)
    BY <1>1 DEF TiersInv, TypeOK
  <2>2. DOMAIN W = DOMAIN M \cup DOMAIN week
    BY <2>1, MergeRow
  <2>3. \A i \in DOMAIN M : SameData(W[i], M[i])
    BY <2>1, MergeRow
  <2>4. \A i \in DOMAIN week \ DOMAIN M : W[i] = week[i]
    BY <2>1, MergeRow
  <2>5. \A i \in DOMAIN week : W[i].prev = week[i].prev
    BY <2>1, MergePrev
  <2>6. \A i \in DOMAIN M \ DOMAIN week : W[i].prev = M[i].prev
    BY <2>1, MergePrev
  <2> QED BY <2>2, <2>3, <2>4, <2>5, <2>6
<1>3. /\ week' = W
      /\ hour' = Written(B, hour) /\ hourTime' = WrittenTime(B, now', hourTime)
      /\ day' = Written(B, day) /\ dayTime' = WrittenTime(B, now', dayTime)
      /\ IsPresent(hour) /\ hourTime # now'
      /\ IsPresent(day) /\ dayTime \div HoursPerDay # now' \div HoursPerDay
  BY DEF FoldDay, HourCrossed, DayCrossed, M
<1>4. hourTime \in Nat /\ dayTime \in Nat /\ now \in Nat /\ hourTime <= now /\ dayTime <= now
  BY DEF TiersInv, TypeOK, TimesInv
<1> HIDE DEF W
<1>5. ASSUME NEW i \in Ids, InDelta(i)
      PROVE  i \in DOMAIN W /\ SameData(W[i], Winner(i)) /\ W[i].prev = Oldest(i).prev
  BY <1>1, <1>2, <1>5 DEF InDelta, Winner, Oldest, Has, SameData
<1>6. \A i \in DOMAIN W : InDelta(i)
  BY <1>1, <1>2 DEF InDelta, Has
<1>7. ASSUME NEW i \in Ids, i \in DOMAIN W PROVE W[i].prev = byid[i].cell
  BY <1>5, <1>6, <1>7 DEF TiersInv, ChainInv, FromBase
<1>8. CASE DOMAIN B = {}
  <2>1. hour' = hour /\ hourTime' = hourTime /\ day' = day /\ dayTime' = dayTime
    BY <1>3, <1>8 DEF Written, WrittenTime, IsPresent
  <2>2. TimesInv'
    BY <1>3, <1>4, <2>1 DEF TimesInv, IsPresent
  <2>3. HourRepeats'
    BY <1>3, <1>4, <2>1 DEF HourRepeats
  <2>4. DayRepeats'
    <3>1. dayTime \div HoursPerDay <= now' \div HoursPerDay
      BY <1>4, DivMonotone
    <3>2. dayTime \div HoursPerDay \in Nat /\ now' \div HoursPerDay \in Nat
      BY <1>4, DayIsNat
    <3> QED BY <1>3, <2>1, <2>3, <3>1, <3>2 DEF DayRepeats, HourRepeats, IsPresent
  <2>5. ASSUME NEW i \in Ids PROVE FromBase(i)'
    BY <1>1, <1>2, <1>3, <1>7, <2>1 DEF FromBase, InDelta, Oldest, Has
  <2>6. ASSUME NEW i \in Ids PROVE HourOnDay(i)'
    <3>1. HourOnDay(i)
      BY DEF TiersInv, ChainInv
    <3> QED BY <2>1, <2>3, <3>1 DEF HourOnDay, Has, Winner, Continues, SameData
  <2>7. ASSUME NEW i \in Ids PROVE AboveOnWeek(i)'
    <3>1. Has(hour, i) \/ Has(day, i) => Winner(i)' = Winner(i)
      BY <2>1 DEF Has, Winner
    <3>2. Has(hour, i) \/ Has(day, i) => SameData(Winner(i), W[i])
      BY <1>5 DEF InDelta, SameData
    <3> QED BY <1>3, <2>1, <2>4, <3>1, <3>2 DEF AboveOnWeek, Has
  <2> QED BY <2>2, <2>5, <2>6, <2>7 DEF ChainInv
<1>9. CASE DOMAIN B # {}
  <2>1. hour' = B /\ hourTime' = now' /\ day' = B /\ dayTime' = now'
    BY <1>3, <1>9 DEF Written, WrittenTime, IsPresent
  <2>2. TimesInv'
    BY <1>4, <1>9, <2>1 DEF TimesInv, IsPresent
  <2>3. ASSUME NEW i \in Ids PROVE FromBase(i)'
    <3>1. i \in DOMAIN B /\ i \notin DOMAIN W => B[i].prev = byid[i].cell
      BY <1>5 DEF Leaves
    <3> QED BY <1>3, <1>7, <2>1, <3>1 DEF FromBase, InDelta, Oldest, Has
  <2>4. ASSUME NEW i \in Ids PROVE HourOnDay(i)'
    BY <2>1 DEF HourOnDay, Has, Continues
  <2>5. ASSUME NEW i \in Ids PROVE AboveOnWeek(i)'
    <3> SUFFICES ASSUME i \in DOMAIN B, i \in DOMAIN W
                 PROVE  Continues(B[i], W[i])
      BY <1>3, <2>1 DEF AboveOnWeek, AboveWeek, Has
    <3> QED BY <1>5, <1>6 DEF Leaves, Continues, SameData
  <2> QED BY <2>2, <2>3, <2>4, <2>5 DEF ChainInv
<1> QED BY <1>8, <1>9

(* Whatever boundary the batch crosses, the chains stay whole. *)
LEMMA RunChain ==
  ASSUME TiersInv, RunOnce
  PROVE  TimesInv' /\ ChainInv'
<1>1. TypeOK /\ diff' \in Diffs /\ seq' \in Nat
  BY DEF TiersInv, RunOnce, TypeOK
<1>2. IsTier(Resolved(diff', seq')) /\ Leaves(Resolved(diff', seq'))
  BY <1>1, ResolvedIsTier, ResolvedLeaves
<1>3. now' \in Nat /\ now' >= now /\ byid' = byid
  BY <1>1, TiersAssumption DEF RunOnce, TypeOK
<1> QED BY <1>2, <1>3, MergeIntoHourChain, FoldHourChain, FoldDayChain DEF RunOnce

(* A row that left a cell is a tombstone, or it is still there. *)
LEMMA LeftOrThere ==
  ASSUME NEW tier, NEW i \in DOMAIN tier, tier[i].prev \in Cells
  PROVE  <<i, tier[i].prev>> \in Tombstones(tier) \/ (tier[i].cell = tier[i].prev /\ ~tier[i].deleted)
<1> DEFINE t == <<i, tier[i].prev>>
<1>1. t \in (DOMAIN tier) \X Cells /\ t[1] = i /\ t[2] = tier[i].prev
  OBVIOUS
<1> HIDE DEF t
<1>2. tier[i].prev # tier[i].cell \/ tier[i].deleted => t \in Tombstones(tier)
  BY <1>1 DEF Tombstones
<1>3. CASE tier[i].prev # tier[i].cell \/ tier[i].deleted
  BY <1>2, <1>3 DEF t
<1>4. CASE ~(tier[i].prev # tier[i].cell \/ tier[i].deleted)
  BY <1>4
<1> QED BY <1>3, <1>4

(* The cell of a base row that the tiers replace is named by a tombstone   *)
(* of some tier, or the winning row lies in it.                            *)
LEMMA BaseCellNamed ==
  ASSUME TiersInv, NEW i \in Ids, InDelta(i), byid[i].cell \in Cells
  PROVE  <<i, byid[i].cell>> \in AllTombstones \/ Winner(i).cell = byid[i].cell
<1> DEFINE c == byid[i].cell
<1> SUFFICES ASSUME <<i, c>> \notin AllTombstones PROVE Winner(i).cell = c
  OBVIOUS
<1>1. Has(hour, i) /\ hour[i].prev = c => hour[i].cell = c /\ ~hour[i].deleted
  BY LeftOrThere DEF AllTombstones, Has
<1>2. Has(day, i) /\ day[i].prev = c => day[i].cell = c /\ ~day[i].deleted
  BY LeftOrThere DEF AllTombstones, Has
<1>3. Has(week, i) /\ week[i].prev = c => week[i].cell = c /\ ~week[i].deleted
  BY LeftOrThere DEF AllTombstones, Has
<1>4. Oldest(i).prev = c /\ HourOnDay(i) /\ AboveOnWeek(i)
  BY DEF TiersInv, ChainInv, FromBase
<1> HIDE DEF c
<1>5. ASSUME Has(day, i), day[i].prev = c PROVE Winner(i).cell = c
  BY <1>1, <1>2, <1>4, <1>5 DEF HourOnDay, Continues, SameData, Winner
<1>6. ASSUME Has(hour, i) \/ Has(day, i), AboveWeek(i).prev = c PROVE Winner(i).cell = c
  BY <1>1, <1>5, <1>6 DEF AboveWeek, Winner
<1>7. CASE ~Has(week, i)
  BY <1>4, <1>6, <1>7 DEF Oldest, AboveWeek, InDelta
<1>8. CASE Has(week, i)
  <2>1. week[i].prev = c /\ week[i].cell = c /\ ~week[i].deleted
    BY <1>3, <1>4, <1>8 DEF Oldest
  <2>2. CASE ~Has(hour, i) /\ ~Has(day, i)
    BY <1>8, <2>1, <2>2 DEF Winner
  <2>3. CASE Has(hour, i) \/ Has(day, i)
    BY <1>4, <1>6, <1>8, <2>1, <2>3 DEF AboveOnWeek, Continues, SameData
  <2> QED BY <2>2, <2>3
<1> QED BY <1>7, <1>8

(* So compaction rewrites it. *)
LEMMA BaseCellTouched ==
  ASSUME TiersInv, NEW i \in Ids, InDelta(i), byid[i].cell \in Cells
  PROVE  byid[i].cell \in TouchedCells
<1>1. CASE Winner(i).cell = byid[i].cell
  BY <1>1 DEF TouchedCells
<1>2. CASE <<i, byid[i].cell>> \in AllTombstones
  BY <1>2 DEF TouchedCells
<1> QED BY <1>1, <1>2, BaseCellNamed

(* Compaction leaves the two base tables with the same rows. *)
LEMMA CompactAgrees ==
  ASSUME TiersInv, Compact
  PROVE  BaseTablesAgree'
<1> SUFFICES ASSUME NEW c \in Cells
             PROVE  spatial'[c] =
                      {[id |-> i, seq |-> byid'[i].seq] : i \in {j \in Ids : byid'[j].cell = c}}
  BY DEF BaseTablesAgree
<1>1. /\ \A i \in Ids : byid'[i] = ByIdRead(i)
      /\ spatial'[c] = IF c \in TouchedCells THEN Compacted(c) ELSE spatial[c]
  BY DEF Compact
<1>2. spatial[c] = {[id |-> i, seq |-> byid[i].seq] : i \in {j \in Ids : byid[j].cell = c}}
  BY DEF TiersInv, BaseTablesAgree
<1>3. ASSUME NEW i \in Ids, ~InDelta(i) PROVE ByIdRead(i) = byid[i]
  BY <1>3 DEF ByIdRead
<1>4. ASSUME NEW i \in Ids, InDelta(i)
      PROVE  /\ ByIdRead(i).cell = c <=> Winner(i).cell = c /\ ~Winner(i).deleted
             /\ ~Winner(i).deleted => ByIdRead(i).seq = Winner(i).seq
  BY <1>4, TiersAssumption DEF ByIdRead, Absent
<1>5. CASE c \in TouchedCells
  <2>1. ASSUME NEW r \in Compacted(c)
        PROVE  \E i \in Ids : ByIdRead(i).cell = c /\ r = [id |-> i, seq |-> ByIdRead(i).seq]
    <3>1. CASE r \in spatial[c] /\ ~InDelta(r.id)
      BY <1>2, <1>3, <3>1
    <3>2. CASE \E i \in Ids : /\ InDelta(i) /\ Winner(i).cell = c /\ ~Winner(i).deleted
                              /\ r = [id |-> i, seq |-> Winner(i).seq]
      BY <1>4, <3>2
    <3> QED BY <3>1, <3>2 DEF Compacted
  <2>2. ASSUME NEW i \in Ids, ByIdRead(i).cell = c
        PROVE  [id |-> i, seq |-> ByIdRead(i).seq] \in Compacted(c)
    <3>1. CASE ~InDelta(i)
      <4>1. [id |-> i, seq |-> byid[i].seq] \in spatial[c]
        BY <1>2, <1>3, <2>2, <3>1
      <4> QED BY <1>3, <3>1, <4>1 DEF Compacted
    <3>2. CASE InDelta(i)
      BY <1>4, <2>2, <3>2 DEF Compacted
    <3> QED BY <3>1, <3>2
  <2> QED BY <1>1, <1>5, <2>1, <2>2
<1>6. CASE c \notin TouchedCells
  <2>1. \A i \in Ids : byid[i].cell = c => ~InDelta(i)
    BY <1>6, BaseCellTouched
  <2>2. \A i \in Ids : InDelta(i) => Winner(i).cell # c
    BY <1>6 DEF TouchedCells
  <2>3. \A i \in Ids : ByIdRead(i).cell = c <=> byid[i].cell = c
    BY <1>3, <1>4, <2>1, <2>2
  <2>4. \A i \in Ids : byid[i].cell = c => ByIdRead(i).seq = byid[i].seq
    BY <1>3, <2>1
  <2> QED BY <1>1, <1>2, <1>6, <2>3, <2>4
<1> QED BY <1>5, <1>6

(* A compacted root has no tiers, so no chains. *)
LEMMA EmptyTiersChain ==
  ASSUME hour = NoTier, day = NoTier, week = NoTier, hourTime = 0, dayTime = 0, now \in Nat
  PROVE  TimesInv /\ ChainInv
BY NoTierIsTier DEF TimesInv, ChainInv, FromBase, HourOnDay, AboveOnWeek, InDelta, Has, IsPresent

(* Every step preserves the invariant. *)
LEMMA TiersStep == TiersInv /\ [Next]_vars => TiersInv'
<1> SUFFICES ASSUME TiersInv, [Next]_vars PROVE TiersInv'
  OBVIOUS
<1>1. TypeOK /\ BaseTablesAgree
  BY DEF TiersInv
<1>2. CASE RunOnce
  <2>1. BaseTablesAgree'
    BY <1>1, <1>2 DEF BaseTablesAgree, RunOnce
  <2> QED BY <1>1, <1>2, <2>1, TypeRunOnce, RunChain DEF TiersInv
<1>3. CASE Compact
  <2>1. TypeOK'
    BY <1>1, <1>3, TypeCompact
  <2>2. /\ hour' = NoTier /\ day' = NoTier /\ week' = NoTier
        /\ hourTime' = 0 /\ dayTime' = 0 /\ now' \in Nat
    BY <1>1, <1>3 DEF Compact, TypeOK
  <2>3. TimesInv' /\ ChainInv'
    BY <2>2, NoTierIsTier
       DEF TimesInv, ChainInv, FromBase, HourOnDay, AboveOnWeek, InDelta, Has, IsPresent
  <2> QED BY <1>3, <2>1, <2>3, CompactAgrees DEF TiersInv
<1>4. CASE UNCHANGED vars
  BY <1>4 DEF TiersInv, TypeOK, IsTier, TimesInv, ChainInv, BaseTablesAgree, FromBase, HourOnDay,
              AboveOnWeek, InDelta, Has, Winner, Oldest, AboveWeek, HourRepeats, DayRepeats,
              IsPresent, vars, tiers
<1> QED BY <1>2, <1>3, <1>4 DEF Next

(* The chains of prev_cells lead back to the base tables, which agree,     *)
(* after every run and every compaction.                                   *)
THEOREM TiersAreChained == Spec => []TiersInv
<1>1. Init => TiersInv
  <2> SUFFICES ASSUME Init PROVE TiersInv
    OBVIOUS
  <2>1. TimesInv /\ ChainInv
    BY EmptyTiersChain DEF Init
  <2>2. BaseTablesAgree
    <3>1. \A i \in Ids : byid[i].seq = 0
      BY DEF Init
    <3> QED BY <3>1 DEF Init, BaseTablesAgree
  <2> QED BY <2>1, <2>2, TypeInit DEF TiersInv
<1> QED BY <1>1, TiersStep, PTL DEF Spec

(* The by-id and the spatial base tables hold the same rows: compaction    *)
(* rewrites every cell that lost or gained one (compact._touched_cells).   *)
THEOREM TablesAgree == Spec => []BaseTablesAgree
BY TiersAreChained, PTL DEF TiersInv

(* The winning row of an element is a candidate of every scan of its cell, *)
(* and no older row is preferred to it.                                    *)
LEMMA WinnerIsCandidate ==
  ASSUME NEW i \in Ids, InDelta(i), NEW cells, Winner(i).cell \in cells
  PROVE  IsCandidate(cells, i) /\ Candidate(cells, i) = Winner(i)
BY DEF InDelta, Winner, IsCandidate, Candidate, Seen

(* Only elements of the tiers are candidates or have tombstones. *)
LEMMA OutsideDelta ==
  ASSUME NEW i \in Ids, ~InDelta(i), NEW cells
  PROVE  i \notin Shadow(cells)
<1>1. ~IsCandidate(cells, i)
  BY DEF InDelta, IsCandidate, Seen
<1>2. ASSUME NEW tier, NEW c, <<i, c>> \in Tombstones(tier) PROVE Has(tier, i)
  BY <1>2 DEF Tombstones, Has
<1>3. \A c : <<i, c>> \notin AllTombstones
  BY <1>2 DEF AllTombstones, InDelta
<1> QED BY <1>1, <1>3 DEF Shadow

(* The rows of a base scan. *)
LEMMA BaseScanRow ==
  ASSUME NEW cells
  PROVE  /\ \A r \in BaseScan(cells) :
              \E c \in cells : \E x \in spatial[c] :
                x.id \notin Shadow(cells) /\ r = [id |-> x.id, cell |-> c, seq |-> x.seq]
         /\ \A c \in cells : \A x \in spatial[c] :
              x.id \notin Shadow(cells) =>
                [id |-> x.id, cell |-> c, seq |-> x.seq] \in BaseScan(cells)
BY DEF BaseScan

(* A base row that the tiers replace is in the shadow of every scan that   *)
(* reads it.                                                               *)
LEMMA ReplacedIsShadowed ==
  ASSUME TiersInv, NEW cells \in SUBSET Cells, NEW i \in Ids, InDelta(i), byid[i].cell \in cells
  PROVE  i \in Shadow(cells)
<1>1. CASE Winner(i).cell = byid[i].cell
  BY <1>1, WinnerIsCandidate DEF Shadow
<1>2. CASE <<i, byid[i].cell>> \in AllTombstones
  BY <1>2 DEF Shadow
<1> QED BY <1>1, <1>2, BaseCellNamed

LEMMA ShadowHolds == TiersInv => BaseIsShadowed
<1> SUFFICES ASSUME TiersInv, NEW cells \in SUBSET Cells, NEW r \in BaseScan(cells)
             PROVE  ~InDelta(r.id)
  BY DEF BaseIsShadowed
<1>1. PICK c \in cells : \E x \in spatial[c] :
             x.id \notin Shadow(cells) /\ r = [id |-> x.id, cell |-> c, seq |-> x.seq]
  BY BaseScanRow
<1>2. PICK x \in spatial[c] :
             x.id \notin Shadow(cells) /\ r = [id |-> x.id, cell |-> c, seq |-> x.seq]
  BY <1>1
<1>3. x.id \in Ids /\ byid[x.id].cell = c
  BY <1>2 DEF TiersInv, BaseTablesAgree
<1> QED BY <1>2, <1>3, ReplacedIsShadowed

(* No scan returns a base row of an element that has changed since the     *)
(* base was built (tombstones and first-write-wins prev_cell).             *)
THEOREM BaseRowsAreShadowed == Spec => []BaseIsShadowed
BY TiersAreChained, ShadowHolds, PTL

LEMMA ScanHolds == TiersInv => ScanFindsAll
<1> SUFFICES ASSUME TiersInv, NEW cells \in SUBSET Cells, NEW i \in Ids,
                    ByIdRead(i).cell \in cells
             PROVE  [id |-> i, cell |-> ByIdRead(i).cell, seq |-> ByIdRead(i).seq] \in Scan(cells)
  BY DEF ScanFindsAll, Located
<1>1. CASE ~InDelta(i)
  <2>1. ByIdRead(i) = byid[i]
    BY <1>1 DEF ByIdRead
  <2>2. [id |-> i, seq |-> byid[i].seq] \in spatial[byid[i].cell]
    BY <2>1 DEF TiersInv, BaseTablesAgree
  <2>3. i \notin Shadow(cells)
    BY <1>1, OutsideDelta
  <2>4. [id |-> i, cell |-> byid[i].cell, seq |-> byid[i].seq] \in BaseScan(cells)
    BY <2>1, <2>2, <2>3, BaseScanRow
  <2> QED BY <2>1, <2>4 DEF Scan
<1>2. CASE InDelta(i)
  <2>1. /\ ~Winner(i).deleted
        /\ ByIdRead(i) = [cell |-> Winner(i).cell, seq |-> Winner(i).seq]
    BY <1>2, TiersAssumption DEF ByIdRead, Absent
  <2>2. IsCandidate(cells, i) /\ Candidate(cells, i) = Winner(i)
    BY <1>2, <2>1, WinnerIsCandidate
  <2> QED BY <2>1, <2>2 DEF Scan, DeltaScan
<1> QED BY <1>1, <1>2

(* A scan of any set of cells finds every element that is now in them, in  *)
(* its current version (sources.current_rows).                             *)
THEOREM ScansFindAll == Spec => []ScanFindsAll
BY TiersAreChained, ScanHolds, PTL

LEMMA FullScanHolds == TiersInv => FullScanIsCurrent
<1> SUFFICES ASSUME TiersInv PROVE Scan(Cells) \subseteq Located(Cells)
  BY ScanHolds DEF ScanFindsAll, FullScanIsCurrent
<1>1. ASSUME NEW r \in BaseScan(Cells) PROVE r \in Located(Cells)
  <2>1. PICK c \in Cells : \E x \in spatial[c] :
               x.id \notin Shadow(Cells) /\ r = [id |-> x.id, cell |-> c, seq |-> x.seq]
    BY BaseScanRow
  <2>2. PICK x \in spatial[c] :
               x.id \notin Shadow(Cells) /\ r = [id |-> x.id, cell |-> c, seq |-> x.seq]
    BY <2>1
  <2>3. x.id \in Ids /\ byid[x.id].cell = c /\ byid[x.id].seq = x.seq
    BY <2>2 DEF TiersInv, BaseTablesAgree
  <2>4. ~InDelta(x.id)
    BY <2>2, <2>3, ReplacedIsShadowed
  <2>5. ByIdRead(x.id) = byid[x.id]
    BY <2>4 DEF ByIdRead
  <2> QED BY <2>2, <2>3, <2>5 DEF Located
<1>2. ASSUME NEW r \in DeltaScan(Cells) PROVE r \in Located(Cells)
  <2>1. PICK i \in Ids :
               /\ IsCandidate(Cells, i) /\ ~Candidate(Cells, i).deleted
               /\ r = [id |-> i, cell |-> Candidate(Cells, i).cell, seq |-> Candidate(Cells, i).seq]
    BY <1>2 DEF DeltaScan
  <2>2. InDelta(i)
    BY <2>1 DEF IsCandidate, Seen, InDelta
  <2>3. Winner(i).cell \in Cells
    BY <2>2, WinnerIsRow DEF TiersInv, DeltaRows
  <2>4. Candidate(Cells, i) = Winner(i)
    BY <2>2, <2>3, WinnerIsCandidate
  <2>5. ByIdRead(i) = [cell |-> Winner(i).cell, seq |-> Winner(i).seq]
    BY <2>1, <2>2, <2>4 DEF ByIdRead
  <2> QED BY <2>1, <2>3, <2>4, <2>5 DEF Located
<1> QED BY <1>1, <1>2 DEF Scan

(* A scan of all cells returns exactly the current elements. *)
THEOREM FullScansAreCurrent == Spec => []FullScanIsCurrent
BY TiersAreChained, FullScanHolds, PTL
=============================================================================
