\* Three accounts whose providers do not answer before the timeout
SPECIFICATION Spec
CONSTANTS
  NumAccounts = 3
  Jobs = {j1}
  Scenarios <- Undisturbed
  Timeout = 1
  Refreshable = {}
  RefreshTimeout = 2
  RefreshCooldown = 4
  RefreshInterval = 2
  Delays = {2}
  StaleAfter = 2
  Horizon = 6
CHECK_DEADLOCK FALSE
INVARIANTS LiveDaemonLooksLive
