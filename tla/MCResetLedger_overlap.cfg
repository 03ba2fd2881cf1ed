\* Two pollers, answered late or out of turn, that insert whenever they like
SPECIFICATION Spec
CONSTANTS
  Pollers = {p1, p2}
  Grants = {g1, g2}
  ExpiresAt <- Expiry
  TextRank <- InOrder
  MaxTime = 4
  MaxLeft = 2
  MaxRedeemed = 1
SYMMETRY Symmetry
INVARIANTS NoDuplicateUsesUnlessCrossed SummaryMatchesCredits
PROPERTIES CreditsSurvive
CHECK_DEADLOCK FALSE
