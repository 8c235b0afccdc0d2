\* Two threads, three manifests; no symmetry, because of the liveness property.
SPECIFICATION FairSpec
CONSTANTS
  Threads = {t1, t2}
  NoThread = NoThread
  MaxManifest = 3
PROPERTIES ServedNeverRegresses CatchesUp
