\* What the comments say of a win on a hot tile or a robbed gang.
SPECIFICATION Spec
CONSTANTS
  SeatCount = 3
  Options <- MCOptions
  Turned <- MCTurned
  Holdings <- MCHoldings
  CardTypes <- MCCardTypes
  Dealers <- MCDealers
  Waiting <- MCWaiting
  Streaks <- MCStreaks
  MaxDiscards = 3
  MaxGangs = 1
INVARIANT
  HotWinPaysOnlyTheWin
