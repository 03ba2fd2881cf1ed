\* Daemon and `token-burn once` share the login with Pi; the clock is bounded,
\* so that the system stops at the horizon
SPECIFICATION FairSpec
CONSTANTS
  Pollers = {daemon, cli}
  NoPoller = NoPoller
  Lifetime = 2
  Skew = 0
  Cooldown = 3
  Horizon = 2
  MaxGen = 2
  MaxFaults = 1
CHECK_DEADLOCK FALSE
INVARIANTS TypeOK FileHoldsLatest RefusedOncePerPoll
PROPERTIES NeverGoesBack AuthExpiredIsTrue PollEnds ImplementsSharedLogin
