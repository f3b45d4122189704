\* The life of a table; clients may get ready while it is closing.  Timers
\* run: nothing stays open or closing forever.
SPECIFICATION FairSpec
CONSTANTS
  p1 = p1
  p2 = p2
  p3 = p3
  p4 = p4
  Players <- MCPlayers
  Nobody = Nobody
  SeatMax = 4
  MaxPlayBoard = 2
INVARIANTS
  TypeOK
  ReadyPlayersAreCounted
  NoHandBeyondTheRound
  OpenVoteHasTimer
  OwnerIsSeated
  ClosingIsScheduled
  HandIsSettledAndRecordedOnce
PROPERTIES
  TableIsPaidForOnce
  NoHandIsWiped
  ClosedTableIsCleaned
  VoteIsDecided
