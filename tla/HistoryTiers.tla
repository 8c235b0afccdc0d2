----------------------------- MODULE HistoryTiers -----------------------------
(***************************************************************************)
(* The history dataset once it exists: the rows an updater run appends     *)
(* (_build_history_batch in update/updater.py), the append-only hour, day  *)
(* and week tiers and their folds (_write_history_tiers), compaction into  *)
(* the base history (build/compact.py).  AtticReads reads it.              *)
(*                                                                         *)
(* A row keeps what decides which state is read: version, minor version,   *)
(* valid_from, visible and cell.  The rows of one run are one entry of     *)
(* log; the base and the tiers are sequences of entries, so that UNION ALL *)
(* is concatenation and a row stored twice is visible.  valid_to is not    *)
(* stored: it is what the last rewrite of a file computes from its rows.   *)
(***************************************************************************)
EXTENDS Integers, Sequences, FiniteSets, Functions

CONSTANTS
  Nodes, Ways, Relations,  \* elements
  Refs,          \* way -> nodes, relation -> member ways and nodes
  Cells,         \* cells nodes lie in
  Changing,      \* bound: the elements that diffs change
  Home,          \* the cell everything lies in at the start
  Root,          \* the cell that contains all the others
  NoCell,        \* SQL NULL
  NoTime,        \* no such delta tier, or not expired
  PerHour, PerDay,  \* length of an hour and a day
  MaxStep,       \* bound: time between two runs
  MaxTouched,    \* bound: elements in one run
  MaxRuns,       \* bound: runs that append to the history
  MaxEarly,      \* bound: last run before there is history
  MaxTime        \* bound: instants

Ids == Nodes \cup Ways \cup Relations
Times == 0..MaxTime
Places == Cells \cup {Root}

ASSUME HistoryAssumption ==
  /\ IsFiniteSet(Ids)
  /\ Nodes \cap (Ways \cup Relations) = {}
  /\ Refs \in [Ways \cup Relations -> SUBSET (Nodes \cup Ways)]
  /\ \A w \in Ways : Refs[w] \subseteq Nodes /\ Refs[w] # {}
  /\ Changing \subseteq Ids
  /\ Home \in Cells
  /\ NoCell \notin Places
  /\ NoTime \notin Nat
  /\ PerHour \in Nat \ {0} /\ PerDay \in Nat \ {0}
  /\ MaxStep \in Nat /\ MaxTouched \in Nat /\ MaxRuns \in Nat
  /\ MaxEarly \in Nat /\ MaxTime \in Nat

VARIABLES
  cur,        \* current state of each element: version, stamp, live, cell
  now,        \* timestamp_osm_base
  deltaHour, deltaDay,  \* timestamps of the delta tiers of those names
  started,    \* the manifest carries history
  overDeltas, \* the history was built while there were delta tiers
  log,        \* rows of each run (and of the first base), with its time
  base,       \* the base history: positions in log
  hour, day, week  \* the history tiers: positions in log

tiers == <<hour, day, week>>
vars == <<cur, now, deltaHour, deltaDay, started, overDeltas, log, base, tiers>>

Rows == [id : Ids, version : Nat, minor : Nat, from : Nat, live : BOOLEAN,
         cell : Places \cup {NoCell}, prev : Places \cup {NoCell}]

TypeOK ==
  /\ cur \in [Ids -> [version : Nat, stamp : Nat, live : BOOLEAN, cell : Places \cup {NoCell}]]
  /\ now \in Nat
  /\ deltaHour \in Nat \cup {NoTime} /\ deltaDay \in Nat \cup {NoTime}
  /\ started \in BOOLEAN /\ overDeltas \in BOOLEAN
  /\ log \in Seq([time : Nat, rows : SUBSET Rows])
  /\ base \in Seq(DOMAIN log)
  /\ hour \in Seq(DOMAIN log) /\ day \in Seq(DOMAIN log) /\ week \in Seq(DOMAIN log)

NoDeltas == deltaHour = NoTime /\ deltaDay = NoTime

-----------------------------------------------------------------------------
(* Elements and what contains them. *)

(* The cell of an element whose nodes lie in the given cells. *)
Containing(cells) == IF Cardinality(cells) = 1 THEN CHOOSE c \in cells : TRUE ELSE Root

NodesOf(x) ==
  IF x \in Nodes THEN {x}
  ELSE UNION {IF m \in Nodes THEN {m} ELSE Refs[m] : m \in Refs[x]}

(* Where x lies when the nodes lie as given. *)
CellOf(x, place) == Containing({place[n] : n \in NodesOf(x)})

(* Touched parents: ways of a changed node, then relations of those or of  *)
(* a changed member, unless they are in the batch themselves.              *)
TouchedWays(S) == {w \in Ways \ S : cur[w].live /\ Refs[w] \cap S # {}}
Touched(S) ==
  TouchedWays(S) \cup
    {r \in Relations \ S : cur[r].live /\ Refs[r] \cap (S \cup TouchedWays(S)) # {}}

(* Everything exists from the start. *)
Init ==
  /\ cur = [i \in Ids |-> [version |-> 1, stamp |-> 0, live |-> TRUE, cell |-> Home]]
  /\ now = 0
  /\ deltaHour = NoTime /\ deltaDay = NoTime
  /\ started = FALSE /\ overDeltas = FALSE
  /\ log = <<>>
  /\ base = <<>> /\ hour = <<>> /\ day = <<>> /\ week = <<>>

-----------------------------------------------------------------------------
(* A batch maps each changed element to the versions the diffs hold of it, *)
(* oldest first.  Timestamps lie after the last run and increase; a node's *)
(* version says where it is.                                               *)

Versions(x, from) ==
  {[from |-> from, live |-> TRUE, cell |-> c] : c \in IF x \in Nodes THEN Cells ELSE {Root}}
    \cup {[from |-> from, live |-> FALSE, cell |-> Root]}

(* Bound: two versions of an element in one run. *)
Occurrences(x, t) ==
  (UNION {{<<v>> : v \in Versions(x, f)} : f \in (now + 1)..t})
    \cup (UNION {UNION {{<<v, w>> : v \in Versions(x, f), w \in Versions(x, g)} :
                          g \in (f + 1)..t} : f \in (now + 1)..t})

Final(o) == o[Len(o)]
LiveAfter(b, x) == IF x \in DOMAIN b THEN Final(b[x]).live ELSE cur[x].live
Users(x) == {p \in Ways \cup Relations : x \in Refs[p]}

(* Upstream deletes nothing that is in use and refers to nothing that is   *)
(* deleted; a deletion of what the root does not hold is dropped.          *)
IsLegal(b) ==
  \A x \in DOMAIN b :
    /\ Final(b[x]).live \/ cur[x].live
    /\ (\E j \in DOMAIN b[x] : ~b[x][j].live) => \A p \in Users(x) : ~LiveAfter(b, p)
    /\ (\E j \in 1..(Len(b[x]) - 1) : ~b[x][j].live) => \A p \in Users(x) : ~cur[p].live
    /\ x \notin Nodes /\ LiveAfter(b, x) => \A y \in Refs[x] : LiveAfter(b, y)

Batches(t) ==
  {b \in UNION {[S -> UNION {Occurrences(x, t) : x \in S}] :
                  S \in {T \in SUBSET Changing : Cardinality(T) \in 1..MaxTouched}} :
     (\A x \in DOMAIN b : b[x] \in Occurrences(x, t)) /\ IsLegal(b)}

(* The resolved state: the cell and previous cell of a changed or touched  *)
(* element.  A deleted one keeps the cell it was in.                       *)
PrevCell(i) == IF cur[i].live THEN cur[i].cell ELSE NoCell

NewCell(b, i) ==
  IF ~LiveAfter(b, i) THEN PrevCell(i)
  ELSE CellOf(i, [n \in Nodes |-> IF n \in DOMAIN b THEN Final(b[n]).cell ELSE cur[n].cell])

Resolved(b) ==
  [i \in Ids |->
     IF i \in DOMAIN b THEN [version |-> cur[i].version + Len(b[i]), stamp |-> Final(b[i]).from,
                             live |-> LiveAfter(b, i), cell |-> NewCell(b, i)]
     ELSE IF i \in Touched(DOMAIN b) THEN [cur[i] EXCEPT !.cell = NewCell(b, i)]
     ELSE cur[i]]

-----------------------------------------------------------------------------
(* The history rows of a batch. *)

Stored(entries) == UNION {log[k].rows : k \in Range(entries)}
BaseRows == Stored(base)
TierRows == Stored(hour) \cup Stored(day) \cup Stored(week)

MaxOf(S) == CHOOSE m \in S : \A k \in S : k <= m

(* The greatest minor version on record of i's current version. *)
PrevMinor(i) ==
  MaxOf({0} \cup {r.minor : r \in {q \in BaseRows \cup TierRows :
                                     q.id = i /\ q.version = cur[i].version}})

(* Version j of a changed element.  All versions get the final cell; only  *)
(* the last one knows the cell it left.                                    *)
OwnRow(b, x, j) ==
  [id |-> x, version |-> cur[x].version + j, minor |-> 0, from |-> b[x][j].from,
   live |-> b[x][j].live,
   cell |-> IF b[x][j].live THEN NewCell(b, x) ELSE PrevCell(x),
   prev |-> IF j = Len(b[x]) THEN PrevCell(x) ELSE NoCell]

OwnRows(b) == UNION {{OwnRow(b, x, j) : j \in DOMAIN b[x]} : x \in DOMAIN b}

(* Mutant: a minor version starts with the base the run began from. *)
MinorFromBase(b, i, t) == now

(* When a touched parent changed: with the last of its own changed         *)
(* members, or at the time of the batch.                                   *)
MinorFrom(b, i, t) ==
  LET changed == Refs[i] \cap DOMAIN b IN
    IF changed = {} THEN t ELSE MaxOf({Final(b[x]).from : x \in changed})

MinorRow(b, i, t) ==
  [id |-> i, version |-> cur[i].version, minor |-> PrevMinor(i) + 1,
   from |-> MinorFrom(b, i, t), live |-> TRUE, cell |-> NewCell(b, i), prev |-> PrevCell(i)]

(* Mutant: only parents of elements in the batch itself. *)
MinorRowsDirect(b, t) ==
  {MinorRow(b, i, t) : i \in {j \in Touched(DOMAIN b) : Refs[j] \cap DOMAIN b # {}}}

(* A minor version of every touched parent. *)
MinorRows(b, t) == {MinorRow(b, i, t) : i \in Touched(DOMAIN b)}

HistoryBatch(b, t) == OwnRows(b) \cup MinorRows(b, t)

(* Mutant: leaving a cell leaves no trace there. *)
SpatialRowsStay(rows) == rows

(* The spatial copy: the cell a state left also gets an invisible row. *)
SpatialRows(rows) ==
  rows \cup {[r EXCEPT !.cell = r.prev, !.live = FALSE] :
               r \in {q \in rows : q.prev # NoCell /\ q.prev # q.cell}}

-----------------------------------------------------------------------------
(* The current state's tiers decide when both kinds of tier fold. *)

HourCrossed(t) == deltaHour # NoTime /\ deltaHour \div PerHour # t \div PerHour
DayCrossed(t) == HourCrossed(t) /\ deltaDay # NoTime /\ deltaDay \div PerDay # t \div PerDay

(* _write_tiers, for what it does to the timestamps; a batch without rows  *)
(* leaves the tier it would start as it is.                                *)
WriteDeltas(t, isEmpty) ==
  /\ deltaHour' = IF isEmpty /\ (HourCrossed(t) \/ deltaHour = NoTime) THEN deltaHour ELSE t
  /\ deltaDay' = IF ~HourCrossed(t) THEN deltaDay
                 ELSE IF ~DayCrossed(t) THEN deltaHour
                 ELSE IF isEmpty THEN deltaDay ELSE t

(* _history_append_tables: UNION ALL, nothing is merged by id. *)
AppendTables(old, new) == old \o new

(* The same hour: old hour rows and this run's. *)
AppendToHour(k, t) ==
  /\ ~HourCrossed(t)
  /\ hour' = AppendTables(hour, <<k>>)
  /\ UNCHANGED <<day, week>>

(* A new hour.  Without an hour tier in the history the run fails here. *)
FoldHour(k, t) ==
  /\ HourCrossed(t) /\ ~DayCrossed(t)
  /\ hour # <<>>
  /\ day' = AppendTables(day, hour)
  /\ hour' = <<k>>
  /\ UNCHANGED week

(* Mutant: the last hour is not part of the day. *)
FoldDayShort(k, t) ==
  /\ DayCrossed(t)
  /\ hour # <<>>
  /\ week' = AppendTables(week, day)
  /\ day' = <<k>>
  /\ hour' = <<k>>

(* A new day: the day and the hour tier both start with this run. *)
FoldDay(k, t) ==
  /\ DayCrossed(t)
  /\ hour # <<>>
  /\ week' = AppendTables(week, AppendTables(day, hour))
  /\ day' = <<k>>
  /\ hour' = <<k>>

(* When the next run may be. *)
Upcoming(last) == {t \in (now + 1)..(now + MaxStep) : t <= last}

(* A run on a root with history. *)
RunWithHistory ==
  /\ started /\ Len(log) < MaxRuns
  /\ \E t \in Upcoming(MaxTime) : \E b \in Batches(t) :
       /\ log' = Append(log, [time |-> t, rows |-> HistoryBatch(b, t)])
       /\ \/ AppendToHour(Len(log'), t)
          \/ FoldHour(Len(log'), t)
          \/ FoldDay(Len(log'), t)
       /\ cur' = Resolved(b)
       /\ now' = t
       /\ WriteDeltas(t, FALSE)
  /\ UNCHANGED <<started, overDeltas, base>>

(* A run whose diffs change nothing here writes no history tier. *)
RunEmpty ==
  /\ started /\ Len(log) < MaxRuns
  /\ \E t \in Upcoming(MaxTime) : now' = t /\ WriteDeltas(t, TRUE)
  /\ UNCHANGED <<cur, started, overDeltas, log, base, tiers>>

(* A run before there is history. *)
RunWithoutHistory ==
  /\ ~started
  /\ \E t \in Upcoming(MaxEarly) : \E b \in Batches(t) :
       /\ cur' = Resolved(b)
       /\ now' = t
       /\ WriteDeltas(t, FALSE)
  /\ UNCHANGED <<started, overDeltas, log, base, tiers>>

-----------------------------------------------------------------------------
(* Starting and compacting the history. *)

CurrentRows ==
  {[id |-> i, version |-> cur[i].version, minor |-> 0, from |-> cur[i].stamp, live |-> TRUE,
    cell |-> cur[i].cell, prev |-> NoCell] : i \in {j \in Ids : cur[j].live}}

Start ==
  /\ ~started
  /\ started' = TRUE
  /\ log' = <<[time |-> now, rows |-> CurrentRows]>>
  /\ base' = <<1>>
  /\ UNCHANGED <<cur, now, deltaHour, deltaDay, tiers>>

(* Mutant: history init does not mind them. *)
HistoryInitAnyway ==
  /\ Start
  /\ UNCHANGED overDeltas

(* osmpq history init refuses a root with delta tiers. *)
HistoryInit ==
  /\ NoDeltas
  /\ Start
  /\ UNCHANGED overDeltas

(* osmpq history build does not look at them; that it knows the current    *)
(* state and not what led there stands for any such history.               *)
HistoryBuild ==
  /\ ~NoDeltas
  /\ Start
  /\ overDeltas' = TRUE

Folded == base \o hour \o day \o week

(* Compaction of both kinds of tier. *)
Compact ==
  /\ ~NoDeltas
  /\ base' = Folded
  /\ hour' = <<>> /\ day' = <<>> /\ week' = <<>>
  /\ deltaHour' = NoTime /\ deltaDay' = NoTime
  /\ overDeltas' = FALSE
  /\ UNCHANGED <<cur, now, started, log>>

Next ==
  \/ RunWithHistory \/ RunEmpty \/ RunWithoutHistory
  \/ HistoryInit \/ HistoryBuild \/ Compact

Spec == Init /\ [][Next]_vars

-----------------------------------------------------------------------------
(* Properties. *)

Copies(k, entries) == Cardinality({j \in DOMAIN entries : entries[j] = k})

(* Whatever a run appended stays in the base or in a tier, through every   *)
(* fold and compaction ("append-only"), once or twice and never more: a    *)
(* new day writes the batch to the day and to the hour tier, and the next  *)
(* fold appends one to the other (_write_history_tiers,                    *)
(* _compact_history_type).                                                 *)
NothingIsLost == \A k \in DOMAIN log : Copies(k, base \o hour \o day \o week) \in 1..2

(* When the current state's tiers say that an hour has passed, the history *)
(* has an hour tier to fold, so no run fails on hour_old["seq_from"]       *)
(* unless the history was built over delta tiers.                          *)
CanFold == started /\ ~overDeltas /\ deltaHour # NoTime => hour # <<>>

-----------------------------------------------------------------------------
(* The inductive invariant behind these properties. *)

(* A root without history has no history rows. *)
NoRowsYet ==
  ~started => log = <<>> /\ base = <<>> /\ hour = <<>> /\ day = <<>> /\ week = <<>>

(* A minor version per run at most. *)
MinorsBounded == \A k \in DOMAIN log : \A r \in log[k].rows : r.minor <= k

HistoryInv == TypeOK /\ NoRowsYet /\ MinorsBounded /\ NothingIsLost /\ CanFold
=============================================================================
