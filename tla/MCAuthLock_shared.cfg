\* Two processes; one may die, and owners may be suspended for 30 seconds
SPECIFICATION FairSpec
CONSTANTS
  Procs = {p1, p2}
  Dirs = {d1, d2, d3}
  NoDir = NoDir
  NoView = NoView
  MaxWrites = 2
  MaxCrashes = 1
  MaxStale = 2
  MaxStalls = 1
INVARIANTS TypeOK MutualExclusionWhileFresh
PROPERTIES SerializedUnlessRaced RemovedByOwnerOrAsStale OrphanRemoved AttemptEnds
