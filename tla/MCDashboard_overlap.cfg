\* One Antigravity account, refreshes that overlap; the clock is bounded, so that the system
\* stops at the horizon
SPECIFICATION Spec
CONSTANTS
  NumAccounts = 1
  Jobs = {j1, j2}
  Scenarios <- MCScenarios
  Timeout = 1
  Refreshable = {1}
  RefreshTimeout = 2
  RefreshCooldown = 4
  RefreshInterval = 2
  Delays = {2}
  StaleAfter = 2
  Horizon = 6
SYMMETRY JobSymmetry
CHECK_DEADLOCK FALSE
INVARIANTS DisplayFresh LiveDaemonLooksLiveUnlessOverran
PROPERTIES HealthIsReal
