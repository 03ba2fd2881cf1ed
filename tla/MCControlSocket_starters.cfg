\* Three daemons start, stop and are killed at any time beside each other
SPECIFICATION FairSpec
CONSTANTS
  Daemons = {d1, d2, d3}
  MaxCrashes = 3
INVARIANTS OneDaemonPollsUnlessRaced PollingIsReachableUnlessRaced
PROPERTIES SomeDaemonPolls
