SPECIFICATION Spec
CONSTANTS
  Snapshots = {"premium_interactions", "chat"}
  Shares = {0, 40}
  Allowances = {2}
  MaxCredits = 1
INVARIANTS
  CutOffShowsNoCapacity
