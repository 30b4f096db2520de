\* The last expiry of a symbol retires; every order is well-formed.
CONSTANTS
  Seeds <- ThreeSeeds
  Orders <- NewExpiry
  LookupScaled <- DoubleScaled
  StoredScaled <- FloatScaled
  MinHeadroom = 1
  Capacity = 1
  Grace = 1
  MaxOrders = 1
  MaxTime = 4
SPECIFICATION FairSpec
PROPERTIES
  FlushesForEver
CHECK_DEADLOCK FALSE
