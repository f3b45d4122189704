\* A table of four seats, any of them playing; three hands to a round.
SPECIFICATION Spec
CONSTANTS
  SeatMax = 4
  MaxPlayBoard = 3
INVARIANTS
  DealerPlays
  WinnerDealsNext
  StreakIsCounted
