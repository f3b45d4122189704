SPECIFICATION Spec
CONSTANTS
  SeatCount = 3
  Options <- MCOptions
  Turned <- MCTurned
  Holdings <- MCHoldings
  CardTypes <- MCCardTypes
  Dealers <- MCDealers
  Waiting <- MCWaiting
  Streaks <- MCStreaks
  MaxDiscards = 3
  MaxGangs = 1
INVARIANT
  EveryScoreIsPaid
