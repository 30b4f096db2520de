\* Two streams, one after the other or at once: a queue of two, five items.
CONSTANTS
  Producers = {"stream1", "stream2"}
  Capacity = 2
  MaxItems = 5
SPECIFICATION Spec
INVARIANTS
  TypeOK
  NoSlotShared
PROPERTIES
  ImplementsFifo
CHECK_DEADLOCK FALSE
