SPECIFICATION CommandSpec
CONSTANTS
  Upgraders = {u1, u2}
  MaxVersion = 2
  Launchd = {TRUE, FALSE}
  MaxRows = 4
  BatchSize = 2
  Limits = {0, 1, 3}
  MaxFailures = 2
  Times = {0, 5, 15}
  Percents = {0, 1, 40, 95, 100}
  Resets = {10, 12, 300}
  MaxSamples = 3
  Lifetime = 2
  Clients = {TRUE, FALSE}
  MaxTokens = 4
  MaxLogins = 2
  Horizon = 3
  Snapshots = {"premium_interactions", "chat"}
  Shares = {0, 120}
  Allowances = {0, 1}
  MaxCredits = 2
SYMMETRY UpgradeSymmetry
\* a history ends at MaxSamples, an export when every row is in it
CHECK_DEADLOCK FALSE
INVARIANTS
  BinaryRecoverable
  ResumeIsExact
  CurrentWindowOnly
  ForecastConsistent
  WorkingLoginFound
  CutOffShowsNoCapacityUnlessAmbiguous
PROPERTIES
  FailedUpgradeKeepsBinary
  UpgradedServiceRunsNew
