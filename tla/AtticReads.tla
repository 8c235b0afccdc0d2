------------------------------ MODULE AtticReads ------------------------------
(***************************************************************************)
(* Queries about the past: how the history dataset of HistoryTiers is read *)
(* at an instant by id and by cell, and what changed:, timeline() and      *)
(* [adiff:] make of it (engine/attic.py, history/schema.py, the history    *)
(* accessors of engine/catalog.py).                                        *)
(***************************************************************************)
EXTENDS HistoryTiers, HistoryRows

Of(ids, rows) == {r \in rows : r.id \in ids}

(* raw_state_rows: the states of the ids given, deletions included; base   *)
(* rows by valid_to, tier rows by valid_from alone.                        *)
RawAt(ids, t) ==
  StateAt(Valid(Of(ids, BaseRows), t) \cup {r \in Of(ids, TierRows) : r.from <= t})

(* snapshot_byid_current_rows: the same for any ids. *)
ByIdAt(t) == RawAt(Ids, t)

(* snapshot_current_rows: the states in the cells asked for; the valid_to  *)
(* of a row in a cell's file is computed from the rows of that file.       *)
ScanOf(ids, cells, t) ==
  LET baseRows == SpatialRows(Of(ids, BaseRows)) IN
    StateAt((UNION {Valid(InCell(baseRows, c), t) : c \in cells})
            \cup {r \in SpatialRows(Of(ids, TierRows)) : r.cell \in cells /\ r.from <= t})

ScanAt(cells, t) == ScanOf(Ids, cells, t)

(* What a query sees of the rows: the visible ones. *)
Visible(rows) == {[id |-> r.id, version |-> r.version, cell |-> r.cell] : r \in {q \in rows : q.live}}

(* What an out statement prints of a visible row, geometry included. *)
Rendered(rows) ==
  {[id |-> r.id, version |-> r.version, minor |-> r.minor, cell |-> r.cell] :
     r \in {q \in rows : q.live}}

RowsFrom(since, until) ==
  SpatialRows({r \in BaseRows \cup TierRows : r.from > since /\ r.from <= until})

(* Mutant: only own versions count as changes. *)
ChangedIdsOwn(cells, since, until) ==
  {r.id : r \in {q \in RowsFrom(since, until) : q.minor = 0 /\ q.cell \in cells}}

(* changed_ids_predicate: any row in the cells, deletions, moves and minor *)
(* versions included.                                                      *)
ChangedIds(cells, since, until) ==
  {r.id : r \in {q \in RowsFrom(since, until) : q.cell \in cells}}

(* Mutant: deletions are not listed. *)
ListedLive(i) ==
  UNION {{[at |-> k, row |-> r] : r \in {q \in log[Folded[k]].rows : q.id = i /\ q.minor = 0 /\ q.live}} :
           k \in DOMAIN Folded}

(* The own versions of an element as the files have them, deletions        *)
(* included: UNION ALL lists a row once for each place that stores it.     *)
Listed(i) ==
  UNION {{[at |-> k, row |-> r] : r \in {q \in log[Folded[k]].rows : q.id = i /\ q.minor = 0}} :
           k \in DOMAIN Folded}

(* ORDER BY valid_from, version; copies of one row in any order. *)
IsListedBefore(c, d) ==
  \/ c.row.from < d.row.from
  \/ c.row.from = d.row.from /\ c.row.version < d.row.version
  \/ c.row.from = d.row.from /\ c.row.version = d.row.version /\ c.at < d.at

Earliest(S) == CHOOSE t \in S : \A u \in S : t <= u

(* An entry has its place in the list, and expires when the next one is    *)
(* created.                                                                *)
Entry(c, copies) ==
  LET later == {d \in copies : IsListedBefore(c, d)} IN
    [number |-> Cardinality(copies \ later), version |-> c.row.version, created |-> c.row.from,
     expired |-> IF later = {} THEN NoTime ELSE Earliest({d.row.from : d \in later})]

(* timeline_elements without a version. *)
Timeline(i) == {Entry(c, Listed(i)) : c \in Listed(i)}

(* Mutant: only the cells of the members themselves are looked at. *)
AncestorsSelf(c) == {c}

AncestorsAndSelf(c) == {c, Root}

(* backward_relation_ids_snapshot: relations in the cells that contain the *)
(* member's cell.                                                          *)
BackwardAt(x, t) ==
  {v.id : v \in {u \in UNION {Visible(ScanOf(Relations, AncestorsAndSelf(y.cell), t)) :
                               y \in Visible(RawAt({x}, t))} :
                   x \in Refs[u.id]}}

(* build_diff_actions, augmented, for what a query prints at a and at b:   *)
(* an element that is only there at b was modified if it had any state at  *)
(* a; one that is only there at a is deleted, with its state at b if any.  *)
DiffActions(old, new, a, b) ==
  LET HasId(rows, i) == \E r \in rows : r.id = i
      onlyNew == {r.id : r \in {n \in new : ~HasId(old, n.id)}}
      onlyOld == {r.id : r \in {o \in old : ~HasId(new, o.id)}}
      known == {r.id : r \in RawAt(onlyNew, a)}
      live == {r.id : r \in {q \in RawAt(onlyOld, b) : q.live}}
  IN {[action |-> "modify", id |-> i] :
        i \in {r.id : r \in {n \in new : HasId(old, n.id) /\ n \notin old}}
                \cup (onlyNew \cap known)}
     \cup {[action |-> "create", id |-> i] : i \in onlyNew \ known}
     \cup {[action |-> "delete", id |-> i, gone |-> i \notin live] : i \in onlyOld}

-----------------------------------------------------------------------------
(* Properties. *)

(* Bound: the sets of cells that queries ask for. *)
Asked == {{c} : c \in Places} \cup {Places}

(* The history's answer for the present is the current state, minor        *)
(* versions and moves of touched parents included ("`t` later than         *)
(* `timestamp_osm_base`: same as now").                                    *)
LatestIsCurrent ==
  started =>
    Visible(ByIdAt(now)) =
      {[id |-> i, version |-> cur[i].version, cell |-> cur[i].cell] : i \in {j \in Ids : cur[j].live}}

(* At the time of any run, a scan of any cells finds exactly the elements  *)
(* whose state by id lies in them: every move leaves an invisible row      *)
(* behind, whichever files the rows are in by now.                         *)
ScanAgrees ==
  \A k \in DOMAIN log :
    LET byId == Visible(ByIdAt(log[k].time)) IN
      \A cells \in Asked :
        Visible(ScanAt(cells, log[k].time)) = {v \in byId : v.cell \in cells}

(* An answer about the past never changes: no run, fold or compaction      *)
(* changes any element's state at an instant up to the last run, minor     *)
(* version included (_lead_valid_to against STATE_ORDER_SQL).              *)
PastIsImmutable ==
  [][started => \A t \in 0..now : Rendered(ByIdAt(t))' = Rendered(ByIdAt(t))]_vars

(* The entries that hold at an instant, as `created` and `expired` say. *)
OnTimeline(i, t) ==
  {e \in Timeline(i) : e.created <= t /\ (e.expired = NoTime \/ t < e.expired)}

(* The timeline and the snapshot agree: at any instant at most one entry   *)
(* has begun and not expired, and it is the version a query at that        *)
(* instant reads.  A row that a fold has stored twice has two entries      *)
(* (timeline_elements does not merge them), of which all but the last      *)
(* expire as they begin.                                                   *)
TimelineAgrees ==
  \A i \in Ids : \A t \in 0..now : started =>
    /\ {e.version : e \in OnTimeline(i, t)} = {r.version : r \in RawAt({i}, t)}
    /\ \A e, f \in OnTimeline(i, t) : e = f

(* What a query for the given cells prints at the time of each run. *)
Printed(cells) ==
  {[time |-> log[k].time, rows |-> Rendered(ScanAt(cells, log[k].time))] : k \in DOMAIN log}

(* Two ways to ask what changed agree: every element an augmented diff     *)
(* between two runs reports, (changed:) over the same cells finds too,     *)
(* elements that only left the cells or only changed shape included.       *)
ChangedCoversDiff ==
  \A cells \in Asked :
    \A p, q \in Printed(cells) : p.time < q.time =>
      {x.id : x \in DiffActions(p.rows, q.rows, p.time, q.time)}
        \subseteq ChangedIds(cells, p.time, q.time)

(* At the time of any run, going from an element to its relations finds    *)
(* all that had it as a member: a relation lies in a cell that contains    *)
(* the cells of its members, so the cells above a member suffice.          *)
BackwardFindsAll ==
  \A k \in DOMAIN log :
    LET live == {v.id : v \in Visible(ByIdAt(log[k].time))} IN
      \A x \in (Nodes \cup Ways) \cap live :
        BackwardAt(x, log[k].time) = {r \in Relations : r \in live /\ x \in Refs[r]}

-----------------------------------------------------------------------------
(* The inductive invariant behind these properties. *)

AllRows == UNION {log[k].rows : k \in DOMAIN log}

(* The last row of each element that has begun by t. *)
LastBy(rows, t) ==
  {r \in rows : r.from <= t /\ ~ \E s \in rows : s.id = r.id /\ s.from > r.from /\ s.from <= t}

(* No element has two rows that begin at the same instant, so the two      *)
(* orders in which rows are sorted cannot differ on them.                  *)
OneAtATime(rows) == \A r, s \in rows : r.id = s.id /\ r.from = s.from => r = s

(* Runs follow one another, and a run's rows begin after the run before.   *)
LogInOrder ==
  /\ \A k \in DOMAIN log :
       /\ log[k].time <= now
       /\ \A r \in log[k].rows : r.from <= log[k].time
       /\ \A l \in 1..(k - 1) : log[l].time < log[k].time
                                /\ \A r \in log[k].rows : log[l].time < r.from
  /\ \A i \in Ids : cur[i].stamp <= now
  /\ OneAtATime(AllRows)

(* The last row of an element is its current state. *)
LastIsCurrent ==
  started =>
    \A i \in Ids :
      /\ \A r \in AllRows :
           r.id = i /\ r \in LastBy(AllRows, now) =>
             /\ r.live = cur[i].live
             /\ r.live => r.version = cur[i].version /\ r.cell = cur[i].cell
      /\ cur[i].live => \E r \in LastBy(AllRows, now) : r.id = i

(* Minor versions carry the number of the last own version before them. *)
OwnRowsOnly(rows) == {r \in rows : r.minor = 0}

MinorsFollowOwn ==
  /\ started => \A i \in Ids : cur[i].live =>
       \E r \in LastBy(OwnRowsOnly(AllRows), now) : r.id = i /\ r.version = cur[i].version
  /\ \A m \in AllRows : m.minor # 0 =>
       \E r \in LastBy(OwnRowsOnly(AllRows), m.from) : r.id = m.id /\ r.version = m.version

(* At the time of a run, a cell shows no element that has left it: the     *)
(* last row of an element in a cell is invisible or its last row anywhere. *)
NoGhosts ==
  \A k \in DOMAIN log : \A c \in Places :
    \A r \in LastBy(InCell(SpatialRows(AllRows), c), log[k].time) :
      r.live => r \in LastBy(AllRows, log[k].time)

AtticInv == HistoryInv /\ LogInOrder /\ LastIsCurrent /\ MinorsFollowOwn /\ NoGhosts

(* An element that is there lies where its nodes put it, and so are its    *)
(* members.                                                                *)
Fits(state) ==
  \A i \in Ids : state[i].live =>
    /\ state[i].cell \in Places
    /\ NodesOf(i) # {} => state[i].cell = CellOf(i, [n \in Nodes |-> state[n].cell])
    /\ i \notin Nodes => \A y \in Refs[i] : state[y].live

(* At the time of a run a relation lies in a cell above its members'. *)
RelationsContain ==
  \A k \in DOMAIN log : \A r, x \in LastBy(AllRows, log[k].time) :
    r.live /\ x.live =>
      /\ x.cell \in Places
      /\ r.id \in Relations /\ x.id \in Refs[r.id] => r.cell \in {x.cell, Root}

NestInv == AtticInv /\ Fits(cur) /\ RelationsContain
=============================================================================
