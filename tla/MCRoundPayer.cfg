\* Who pays a win on a stale offer.
SPECIFICATION Spec
CONSTANTS
  SeatCount = 3
  HandSize = 4
  Tiles <- MCTiles
  Copies <- MCCopies
  Deals <- MCDeals
  PermitHu <- MCPermitHu
  PingHu <- MCPingHu
  PermitTing <- MCPermitTing
INVARIANTS
  ClaimedWinHasPayer
