\* Two daemons start at the same time
SPECIFICATION Spec
CONSTANTS
  Daemons = {d1, d2}
  MaxCrashes = 1
SYMMETRY Symmetry
INVARIANT OneDaemonPolls
