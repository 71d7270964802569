SPECIFICATION FairSpec
CHECK_DEADLOCK FALSE
CONSTANTS
  Fields <- MCFields
  Junk = Junk
  DefaultSize = 4
  MaxFields = 2
  MaxChannel = 2
  MaxData = 20
  PipeSize = 6
INVARIANTS
  ParcelInv
PROPERTIES
  KeepsMessages
  FaultsOnlyAtTheEnd
  RecvEnds
