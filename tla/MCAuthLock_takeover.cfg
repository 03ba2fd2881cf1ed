\* One owner dies and two processes find its lock stale
SPECIFICATION Spec
CONSTANTS
  Procs = {p1, p2}
  Dirs = {d1, d2, d3}
  NoDir = NoDir
  NoView = NoView
  MaxWrites = 2
  MaxCrashes = 1
  MaxStale = 1
  MaxStalls = 0
PROPERTY SerializedUpdates
