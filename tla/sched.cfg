\* Everything may fail: the object is evicted, calls are lost, the container restarts.
SPECIFICATION FairSpec
CONSTANTS
  Admins = {a1, a2}
  Slots = {s1, s2, s3}
  ObjectEvicts = TRUE
  CallFails = TRUE
INVARIANTS RunsNeverOverlap OneInvocation StopSticks AlarmSurvives
PROPERTIES KeepsRunning
