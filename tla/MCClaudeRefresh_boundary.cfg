\* One daemon and a token that ends during the poll
SPECIFICATION Spec
CONSTANTS
  Pollers = {daemon}
  Custom = Custom
  Home = Home
  Keychain = Keychain
  Env = Env
  NoSource = NoSource
  Setups <- FileOnly
  Lifetime = 2
  Skew = 1
  Horizon = 1
  MaxLogin = 2
  MaxGen = 2
  MaxFaults = 0
CHECK_DEADLOCK FALSE
PROPERTIES AuthExpiredIsNeverSpurious
