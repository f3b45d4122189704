\* Turn order with four seats.
SPECIFICATION Spec
CONSTANTS
  SeatCount = 4
  HandSize = 4
  Tiles <- MCTiles
  Copies <- MCCopies
  Deals <- MCDeals
  PermitHu <- MCPermitHu
  PingHu <- MCPingHu
  PermitTing <- MCPermitTing
PROPERTIES
  DrawsInTurn
