\* Safety: enough ticks for three failed attempts, the unverified read, and
\* one more tick counted before its last_seq load.
CONSTANTS
  Words <- TwoWords
  MaxPublish = 7
SPECIFICATION FairSpec
INVARIANTS
  TypeOK
  IndexedSlotIsWhole
  TickSkippedOnlyInBurst
PROPERTIES
  EveryTickAcknowledged
  TornOnlyIfLapped
  NeverBackInTime
  ImplementsTickFeed
CHECK_DEADLOCK FALSE
