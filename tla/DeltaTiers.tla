------------------------------ MODULE DeltaTiers ------------------------------
(***************************************************************************)
(* The rolling delta tiers: a generation's base tables plus the hour, day  *)
(* and week tiers that updater runs merge and fold (_write_tiers in        *)
(* update/updater.py), how the engine reads through them (by id and by     *)
(* cell, engine/sources.py), and how compaction folds them into the next   *)
(* generation (build/compact.py).                                          *)
(*                                                                         *)
(* One element type.  A row is its cell and the diff it comes from; a      *)
(* batch is one diff, after the version check and the geometry resolution. *)
(* The spatial and the by-id file of a tier hold the same rows and are one *)
(* table here; the base keeps both.  Writing and publishing are one step:  *)
(* DatasetRoot is about what lies between.                                 *)
(***************************************************************************)
EXTENDS Naturals, FiniteSets

CONSTANTS
  Ids,          \* elements
  Cells,        \* cells of the quadtree
  NoCell,       \* SQL NULL in prev_cell and cell
  Same,         \* in a diff: the element does not occur
  MaxSeq,       \* bound: diffs
  MaxTouched,   \* bound: elements in one diff
  MaxHour,      \* bound: hours of batch timestamps
  HoursPerDay

ASSUME TiersAssumption ==
  /\ NoCell \notin Cells
  /\ Same \notin Cells \cup {NoCell}
  /\ MaxSeq \in Nat
  /\ MaxTouched \in Nat
  /\ MaxHour \in Nat
  /\ HoursPerDay \in Nat \ {0}

VARIABLES
  byid,      \* base by-id table: id -> row, absent ones with cell NoCell
  spatial,   \* base spatial files: cell -> rows [id, seq]
  hour,      \* the tiers: partial functions from ids to delta rows
  day,
  week,
  hourTime,  \* timestamp of the hour tier, in hours
  dayTime,   \* timestamp of the day tier
  now,       \* timestamp of the last batch
  seq,       \* replication_sequence
  diff       \* what the last batch did to each element

tiers == <<hour, day, week, hourTime, dayTime>>
vars == <<byid, spatial, tiers, now, seq, diff>>

Absent == [cell |-> NoCell, seq |-> 0]
Rows == [cell : Cells, seq : Nat] \cup {Absent}
DeltaRows == [cell : Cells, deleted : BOOLEAN, prev : Cells \cup {NoCell}, seq : Nat]
IsTier(t) == DOMAIN t \subseteq Ids /\ t \in [DOMAIN t -> DeltaRows]
Diffs == [Ids -> Cells \cup {NoCell, Same}]

(* A tier the manifest has no entry for. *)
NoTier == [i \in {} |-> Absent]
Has(tier, i) == i \in DOMAIN tier
IsPresent(tier) == DOMAIN tier # {}

TypeOK ==
  /\ byid \in [Ids -> Rows]
  /\ spatial \in [Cells -> SUBSET [id : Ids, seq : Nat]]
  /\ IsTier(hour) /\ IsTier(day) /\ IsTier(week)
  /\ hourTime \in Nat /\ dayTime \in Nat /\ now \in Nat
  /\ seq \in Nat
  /\ diff \in Diffs

Init ==
  /\ byid \in [Ids -> {[cell |-> c, seq |-> 0] : c \in Cells \cup {NoCell}}]
  /\ spatial = [c \in Cells |-> {[id |-> i, seq |-> 0] : i \in {j \in Ids : byid[j].cell = c}}]
  /\ hour = NoTier /\ day = NoTier /\ week = NoTier
  /\ hourTime = 0 /\ dayTime = 0 /\ now = 0
  /\ seq = 0
  /\ diff = [i \in Ids |-> Same]

-----------------------------------------------------------------------------
(* Reading. *)

InDelta(i) == Has(hour, i) \/ Has(day, i) \/ Has(week, i)

(* Tier precedence: hour over day over week. *)
Winner(i) == IF Has(hour, i) THEN hour[i] ELSE IF Has(day, i) THEN day[i] ELSE week[i]

(* A lookup by id, the engine's and the updater's own. *)
ByIdRead(i) ==
  IF ~InDelta(i) THEN byid[i]
  ELSE IF Winner(i).deleted THEN Absent
  ELSE [cell |-> Winner(i).cell, seq |-> Winner(i).seq]

(* tombstones.parquet of a tier: ids that left the cell they were in. *)
Tombstones(tier) ==
  {t \in (DOMAIN tier) \X Cells :
     LET r == tier[t[1]] IN t[2] = r.prev /\ (r.prev # r.cell \/ r.deleted)}

AllTombstones == Tombstones(hour) \cup Tombstones(day) \cup Tombstones(week)

(* A tier's rows for element i that a scan of the given cells reads. *)
Seen(tier, cells, i) == Has(tier, i) /\ tier[i].cell \in cells

IsCandidate(cells, i) == Seen(hour, cells, i) \/ Seen(day, cells, i) \/ Seen(week, cells, i)

(* Mutant: the oldest tier takes precedence. *)
CandidateOldest(cells, i) ==
  IF Seen(week, cells, i) THEN week[i] ELSE IF Seen(day, cells, i) THEN day[i] ELSE hour[i]

(* Only the rows that lie in the cells are ranked. *)
Candidate(cells, i) ==
  IF Seen(hour, cells, i) THEN hour[i] ELSE IF Seen(day, cells, i) THEN day[i] ELSE week[i]

(* Mutant: an element that stayed in its cell is not shadowed. *)
ShadowTombstonesOnly(cells) == {i \in Ids : \E c \in cells : <<i, c>> \in AllTombstones}

Shadow(cells) ==
  {i \in Ids : IsCandidate(cells, i) \/ \E c \in cells : <<i, c>> \in AllTombstones}

(* A scan of a set of cells: base rows outside the shadow set, and the     *)
(* candidates that are not deletions.                                      *)
BaseScan(cells) ==
  UNION {{[id |-> r.id, cell |-> c, seq |-> r.seq] :
            r \in {x \in spatial[c] : x.id \notin Shadow(cells)}} : c \in cells}

DeltaScan(cells) ==
  {[id |-> i, cell |-> Candidate(cells, i).cell, seq |-> Candidate(cells, i).seq] :
     i \in {j \in Ids : IsCandidate(cells, j) /\ ~Candidate(cells, j).deleted}}

Scan(cells) == BaseScan(cells) \cup DeltaScan(cells)

-----------------------------------------------------------------------------
(* An updater run. *)

(* The batch as delta rows: a deletion of an element the root does not     *)
(* hold is dropped; prev_cell is the cell of the current row.              *)
Resolved(d, s) ==
  [i \in {j \in Ids : d[j] \in Cells \/ (d[j] = NoCell /\ ByIdRead(j).cell # NoCell)} |->
     [cell |-> IF d[i] = NoCell THEN ByIdRead(i).cell ELSE d[i],
      deleted |-> d[i] = NoCell,
      prev |-> ByIdRead(i).cell,
      seq |-> s]]

(* Mutant: prev_cell is overwritten with the rest of the row. *)
MergeLatestPrev(new, old) ==
  [i \in DOMAIN new \cup DOMAIN old |-> IF Has(new, i) THEN new[i] ELSE old[i]]

(* _merge_type: the newer row wins, the older prev_cell stays. *)
Merge(new, old) ==
  [i \in DOMAIN new \cup DOMAIN old |->
     IF ~Has(new, i) THEN old[i]
     ELSE IF Has(old, i) THEN [new[i] EXCEPT !.prev = old[i].prev]
     ELSE new[i]]

HourCrossed(t) == IsPresent(hour) /\ hourTime # t
DayCrossed(t) == IsPresent(day) /\ dayTime \div HoursPerDay # t \div HoursPerDay

(* _write_tier_version leaves a tier as it was when it has no row to write. *)
Written(tier, old) == IF IsPresent(tier) THEN tier ELSE old
WrittenTime(tier, t, old) == IF IsPresent(tier) THEN t ELSE old

(* The same hour: the batch goes into the hour tier. *)
MergeIntoHour(batch, t) ==
  /\ ~HourCrossed(t)
  /\ hour' = Written(Merge(batch, hour), hour)
  /\ hourTime' = WrittenTime(Merge(batch, hour), t, hourTime)
  /\ UNCHANGED <<day, week, dayTime>>

(* Mutant: the hour tier starts over without being folded. *)
FoldHourLost(batch, t) ==
  /\ HourCrossed(t) /\ ~DayCrossed(t)
  /\ hour' = Written(batch, hour)
  /\ hourTime' = WrittenTime(batch, t, hourTime)
  /\ UNCHANGED <<day, dayTime, week>>

(* A new hour: hour folds into day, the batch starts the new hour. *)
FoldHour(batch, t) ==
  /\ HourCrossed(t) /\ ~DayCrossed(t)
  /\ day' = Merge(hour, day)
  /\ dayTime' = hourTime
  /\ hour' = Written(batch, hour)
  /\ hourTime' = WrittenTime(batch, t, hourTime)
  /\ UNCHANGED week

(* A new day: hour and day fold into week; day and hour are both the batch. *)
FoldDay(batch, t) ==
  /\ HourCrossed(t) /\ DayCrossed(t)
  /\ week' = Merge(Merge(hour, day), week)
  /\ day' = Written(batch, day)
  /\ dayTime' = WrittenTime(batch, t, dayTime)
  /\ hour' = Written(batch, hour)
  /\ hourTime' = WrittenTime(batch, t, hourTime)

RunOnce ==
  /\ seq < MaxSeq
  /\ seq' = seq + 1
  /\ diff' \in Diffs
  /\ Cardinality({i \in Ids : diff'[i] # Same}) <= MaxTouched
  /\ now' \in now..MaxHour
  /\ LET batch == Resolved(diff', seq') IN
       \/ MergeIntoHour(batch, now')
       \/ FoldHour(batch, now')
       \/ FoldDay(batch, now')
  /\ UNCHANGED <<byid, spatial>>

-----------------------------------------------------------------------------
(* Compaction. *)

(* Mutant: only the cells that winning rows lie in now are rewritten. *)
TouchedCellsNew == {Winner(i).cell : i \in {j \in Ids : InDelta(j)}}

(* The cells whose file is rewritten; the others are hardlinked. *)
TouchedCells ==
  {Winner(i).cell : i \in {j \in Ids : InDelta(j)}}
    \cup {Winner(i).prev : i \in {j \in Ids : InDelta(j) /\ Winner(j).prev # NoCell}}
    \cup {t[2] : t \in AllTombstones}

(* The rows of a rewritten cell. *)
Compacted(c) ==
  {r \in spatial[c] : ~InDelta(r.id)}
    \cup {[id |-> i, seq |-> Winner(i).seq] :
            i \in {j \in Ids : InDelta(j) /\ Winner(j).cell = c /\ ~Winner(j).deleted}}

Compact ==
  /\ byid' = [i \in Ids |-> ByIdRead(i)]
  /\ spatial' = [c \in Cells |-> IF c \in TouchedCells THEN Compacted(c) ELSE spatial[c]]
  /\ hour' = NoTier /\ day' = NoTier /\ week' = NoTier
  /\ hourTime' = 0 /\ dayTime' = 0
  /\ UNCHANGED <<now, seq, diff>>

Next == RunOnce \/ Compact

Spec == Init /\ [][Next]_vars

-----------------------------------------------------------------------------
(* Properties. *)

Current == [i \in Ids |-> ByIdRead(i)]

State == INSTANCE CurrentState WITH current <- Current, seq <- seq, diff <- diff

(* Reads by id follow the diffs exactly: a batch changes what it says and  *)
(* nothing else, and folding a tier or compacting is invisible             *)
(* (sources.byid_current_rows, updater._fetch_current).                    *)
FollowsDiffs == State!Spec

(* The elements whose current row lies in the given cells. *)
Located(cells) ==
  {[id |-> i, cell |-> ByIdRead(i).cell, seq |-> ByIdRead(i).seq] :
     i \in {j \in Ids : ByIdRead(j).cell \in cells}}

(* A scan of any set of cells finds every element that is now in them, in  *)
(* its current version, wherever it was before (sources.current_rows).     *)
ScanFindsAll == \A cells \in SUBSET Cells : Located(cells) \subseteq Scan(cells)

(* A scan of all cells returns exactly the current elements, each once.    *)
FullScanIsCurrent == Scan(Cells) = Located(Cells)

(* No scan returns a base row of an element that has changed since the     *)
(* base was built: the shadow set of any scan that reads the row holds its *)
(* id (tombstones and first-write-wins prev_cell).                         *)
BaseIsShadowed ==
  \A cells \in SUBSET Cells : \A r \in BaseScan(cells) : ~InDelta(r.id)

(* The by-id and the spatial base tables hold the same rows, so compaction *)
(* rewrites every cell that lost or gained a row (compact._touched_cells). *)
BaseTablesAgree ==
  \A c \in Cells :
    spatial[c] = {[id |-> i, seq |-> byid[i].seq] : i \in {j \in Ids : byid[j].cell = c}}

(* A scan never returns a row that is not current: "An id shadowed by a    *)
(* tombstone in a newer tier but present with a payload in an older tier   *)
(* is still shadowed: newest tier wins" (docs/m2-contracts.md section 4).  *)
ScanIsCurrent == \A cells \in SUBSET Cells : Scan(cells) \subseteq Located(cells)

-----------------------------------------------------------------------------
(* The inductive invariant behind these properties. *)

(* Two delta rows that differ at most in prev_cell. *)
SameData(r, q) == r.cell = q.cell /\ r.deleted = q.deleted /\ r.seq = q.seq

(* The row of an element in the oldest tier that has one. *)
Oldest(i) == IF Has(week, i) THEN week[i] ELSE IF Has(day, i) THEN day[i] ELSE hour[i]

(* The row above week's, for an element in hour or day. *)
AboveWeek(i) == IF Has(day, i) THEN day[i] ELSE hour[i]

(* A row x above a row y of the same element continues from it: y was a    *)
(* deletion, or x left a cell that y names.                                *)
Continues(x, y) == y.deleted \/ x.prev \in {y.prev, y.cell}

(* A fold for a batch without rows leaves the tiers it has folded as they  *)
(* were.  Until the next batch, which must fold again, they repeat what    *)
(* was folded.                                                             *)
HourRepeats == hourTime < now
DayRepeats ==
  hourTime < now /\ IsPresent(day) /\ dayTime \div HoursPerDay < now \div HoursPerDay

(* The chain of prev_cells leads from the winning row of an element back   *)
(* to the cell of its base row, except while a tier repeats what lies      *)
(* below it.                                                               *)
FromBase(i) == InDelta(i) => Oldest(i).prev = byid[i].cell

HourOnDay(i) ==
  Has(hour, i) /\ Has(day, i) =>
    Continues(hour[i], day[i]) \/ (SameData(Winner(i), day[i]) /\ HourRepeats)

AboveOnWeek(i) ==
  (Has(hour, i) \/ Has(day, i)) /\ Has(week, i) =>
    Continues(AboveWeek(i), week[i]) \/ (SameData(Winner(i), week[i]) /\ DayRepeats)

ChainInv == \A i \in Ids : FromBase(i) /\ HourOnDay(i) /\ AboveOnWeek(i)

TimesInv ==
  /\ hourTime <= now /\ dayTime <= now
  /\ ~IsPresent(hour) => ~IsPresent(day) /\ ~IsPresent(week)

TiersInv == TypeOK /\ TimesInv /\ ChainInv /\ BaseTablesAgree
=============================================================================
