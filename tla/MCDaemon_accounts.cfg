\* Three accounts, the last one of an unknown provider
SPECIFICATION FairSpec
CONSTANTS
  NumAccounts = 3
  Keys = {1, 2, 3}
  RecordKey <- CanonicalKey
  SuccessKey <- CanonicalKey
  Supported = {1, 2}
  Refreshable = {1}
  PollInterval = 1
  MaxBackoff = 2
  MinRateLimitCooldown = 2
  MaxRateLimitCooldown = 4
  AuthRefreshCooldown = 2
  MaxFetch = 1
  Horizon = 4
  MaxExits = 1
  PowerOfTwo <- MCPowerOfTwo
PROPERTIES EveryAccountPolled
