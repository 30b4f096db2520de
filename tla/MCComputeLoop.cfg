\* Two feeds, two orders, and slices that retire during the run.
CONSTANTS
  Seeds <- EarlyAndLate
  Orders <- NewExpiries
  LookupScaled <- Scaled
  StoredScaled <- Scaled
  MinHeadroom = 1
  Capacity = 2
  Grace = 1
  MaxOrders = 2
  MaxTime = 2
  Feeds <- AppleGoogle
  FlushEvery = 1
SPECIFICATION LoopSpec
INVARIANTS
  WrapsOnlyInGrace
  WaitingIsPriced
PROPERTIES
  ImplementsOrchestrator
  StarvedOnlyByEarlier
CHECK_DEADLOCK FALSE
