\* Three slots, five records: the ring is wrapped around and full.
SPECIFICATION FairSpec
CONSTANTS
  MAX_SMSG = 3
  r1 = r1
  r2 = r2
  r3 = r3
  r4 = r4
  r5 = r5
  Records <- MCRecords
  NoData = NoData
INVARIANTS
  SlotInUseIsNotRefilled
  PublishedSlotHasData
  SavedUnderOwnKey
  NoLeakNoDanglingSlot
PROPERTIES
  AcceptedIsSettled
  ImplementsStore
\* The program may stop after its last hand.
CHECK_DEADLOCK FALSE
