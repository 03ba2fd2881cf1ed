\* The daemon and `token-burn once` share the logins with Claude Code; clock,
\* generations and faults are bounded, so that the system stops at the horizon
SPECIFICATION Spec
CONSTANTS
  Pollers = {daemon, cli}
  Custom = Custom
  Home = Home
  Keychain = Keychain
  Env = Env
  NoSource = NoSource
  Setups <- MCSetups
  Lifetime = 2
  Skew = 1
  Horizon = 1
  MaxLogin = 2
  MaxGen = 2
  MaxFaults = 1
SYMMETRY PollerSymmetry
CHECK_DEADLOCK FALSE
INVARIANTS NewestTokenKept
PROPERTIES NeverGoesBack AuthExpiredIsTrue
