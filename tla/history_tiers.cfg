\* Every fold, then compaction, with at most two versions of an element a run.
SPECIFICATION Spec
CONSTANTS
  n1 = n1
  n2 = n2
  w1 = w1
  r1 = r1
  Nodes = {n1, n2}
  Ways = {w1}
  Relations = {r1}
  Refs <- MCRefs
  Cells = {c1, c2}
  Changing = {n1, w1, r1}
  Home = c1
  Root = Root
  NoCell = NoCell
  NoTime = NoTime
  PerHour = 2
  PerDay = 4
  MaxStep = 2
  MaxTouched = 1
  MaxRuns = 5
  MaxEarly = 1
  MaxTime = 4
INVARIANTS NothingIsLost CanFold LatestIsCurrent ScanAgrees TimelineAgrees ChangedCoversDiff BackwardFindsAll
PROPERTIES PastIsImmutable
CHECK_DEADLOCK FALSE
