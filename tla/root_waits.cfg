\* Two requested runs, compaction and gc, aborts anywhere, maintenance alone.
SPECIFICATION Spec
CONSTANTS
  Updaters = {u1, u2}
  Parts = {byid, spatial}
  Relevant = {1, 2}
  MaxSeq = 2
  MaxNumber = 4
  MaxVersion = 2
  Keep = 2
  WithGc = TRUE
  Procedure = "waits"
SYMMETRY Symmetry
INVARIANTS LatestComplete
PROPERTIES SeqNeverRegresses PublishedIsImmutable
