\* Two pollers whose answers may be later than their observation times
SPECIFICATION Spec
CONSTANTS
  Pollers = {p1, p2}
  Grants = {g1}
  ExpiresAt <- NoExpiry
  TextRank <- InOrder
  MaxTime = 4
  MaxLeft = 1
  MaxRedeemed = 2
SYMMETRY Symmetry
INVARIANT NoDuplicateUses
CHECK_DEADLOCK FALSE
