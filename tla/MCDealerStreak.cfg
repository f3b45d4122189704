\* What the rules of the game say a dealer's hands in a row are worth.
SPECIFICATION Spec
CONSTANTS
  SeatMax = 4
  MaxPlayBoard = 3
INVARIANT
  StreakIsWorthItsHands
