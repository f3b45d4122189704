\* Fees, refunds, listings and red packets of one table after another.
SPECIFICATION Spec
CONSTANTS
  p1 = p1
  p2 = p2
  p3 = p3
  Players <- MCPlayers
  Nobody = Nobody
  Club = Club
  SeatMax = 3
  MaxPlayBoard = 2
  MaxTransfers = 2
  AutoRooms = {1, 2}
  RedPackes = 2
INVARIANTS
  PacketIsPaidOnce
  DrawnPlayerCanTake
  UnplayedTableIsTimed
  ListIsCurrent
PROPERTIES
  TableIsPaidForByItsPayer
