\* Time unit 2.5 minutes, the default interval of five minutes: base cooldown 15
\* minutes, backoffs of 5, 10 and 15 minutes and of 7.5 on the way back
SPECIFICATION Spec
CONSTANTS
  NumAccounts = 1
  Keys = {1}
  RecordKey <- CanonicalKey
  SuccessKey <- CanonicalKey
  Supported = {1}
  Refreshable = {1}
  PollInterval = 2
  MaxBackoff = 6
  MinRateLimitCooldown = 2
  MaxRateLimitCooldown = 24
  AuthRefreshCooldown = 12
  MaxFetch = 1
  Horizon = 25
  MaxExits = 2
  PowerOfTwo <- MCPowerOfTwo
INVARIANTS TypeOK StreakFitsLookback RequestWakesLoop
PROPERTIES BackoffRecovers RateLimitGap EligibleStaysEligible
