\* poll_interval of 30 minutes, above the 15 minutes of Backoff.Max
SPECIFICATION Spec
CONSTANTS
  NumAccounts = 1
  Keys = {1}
  RecordKey <- CanonicalKey
  SuccessKey <- CanonicalKey
  Supported = {1}
  Refreshable = {1}
  PollInterval = 6
  MaxBackoff = 3
  MinRateLimitCooldown = 1
  MaxRateLimitCooldown = 12
  AuthRefreshCooldown = 6
  MaxFetch = 1
  Horizon = 13
  MaxExits = 0
  PowerOfTwo <- MCPowerOfTwo
PROPERTY FailureHoldsAtBase
