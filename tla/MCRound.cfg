\* One hand of three seats.
SPECIFICATION Spec
CONSTANTS
  SeatCount = 3
  HandSize = 4
  Tiles <- MCTiles
  Copies <- MCCopies
  Deals <- MCDeals
  PermitHu <- MCPermitHu
  PingHu <- MCPingHu
  PermitTing <- MCPermitTing
INVARIANTS
  TileConservation
  HandShape
  SomebodyCanAnswer
  OpenWinIsAnsweredFirst
  SelfDrawHasNoPayer
  PassMovesOn
