\* Three goroutines, three slabs of two objects.  Only g1 is guaranteed to be
\* scheduled.  As many slabs as objects may be alive, so memory is never what
\* Take waits for.
CONSTANTS
  g1 = g1
  g2 = g2
  g3 = g3
  s1 = s1
  s2 = s2
  s3 = s3
  Goroutines = {g1, g2, g3}
  SlabIds = {s1, s2, s3}
  SlabSize = 2
  MaxLive = 3
  Running = {g1}
  None = None
SPECIFICATION ArenaLiveSpec
INVARIANTS ArenaTypeOK SlabExclusive NoAlias CutBelowIdx
PROPERTY LockFree
CHECK_DEADLOCK FALSE
