\* Three seeds, three orders of six kinds over three symbols.
CONSTANTS
  Seeds <- ThreeSeeds
  Orders <- MixedOrders
  LookupScaled <- DoubleScaled
  StoredScaled <- FloatScaled
  MinHeadroom = 2
  Capacity = 2
  Grace = 1
  MaxOrders = 3
  MaxTime = 6
SPECIFICATION FairSpec
INVARIANTS
  TypeOK
  BatchHoldsItsSlice
  AtMostTwice
  RegisteredOnce
  ServedUntilRetired
PROPERTIES
  DroppedOnlyAfterGrace
  OpenedIsPlaced
CHECK_DEADLOCK FALSE
