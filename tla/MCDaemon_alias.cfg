\* The only account is configured under a provider alias
SPECIFICATION Spec
CONSTANTS
  NumAccounts = 1
  Keys = {1, 2}
  RecordKey <- CanonicalKey
  SuccessKey <- AliasSuccessKey
  Supported = {1}
  Refreshable = {}
  PollInterval = 1
  MaxBackoff = 3
  MinRateLimitCooldown = 1
  MaxRateLimitCooldown = 12
  AuthRefreshCooldown = 6
  MaxFetch = 1
  Horizon = 13
  MaxExits = 0
  PowerOfTwo <- MCPowerOfTwo
PROPERTY SuccessResetsStreak
