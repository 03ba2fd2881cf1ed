\* One daemon that polls every ten minutes, the cooldown is thirty
SPECIFICATION Spec
CONSTANTS
  Pollers = {daemon}
  NoPoller = NoPoller
  Lifetime = 4
  Skew = 1
  Cooldown = 3
  Horizon = 4
  MaxGen = 1
  MaxFaults = 0
CHECK_DEADLOCK FALSE
INVARIANTS RefusedOncePerCooldown
