\* What table.cc says of it, and does not do.
SPECIFICATION Spec
CONSTANTS
  SeatMax = 4
  MaxPlayBoard = 3
INVARIANT
  DealerFollowsTheRules
