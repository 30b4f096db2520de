\* Two slices that share the job queue and a counter that may wrap around.
CONSTANTS
  Slices = {"near", "far"}
  Contracts = {"call", "put"}
  Listed <- CallAndPut
  TwoKeyed = {"call"}
  ExpiryOf <- NearFirst
  DateOf <- OwnDates
  Modulus = 3
  FirstSeqnos = {0, 1}
  QueueSize = 2
  MinHeadroom = 1
  MaxOpened = 3
  MaxTicks = 2
  MaxBatches = 3
SPECIFICATION Spec
INVARIANTS
  TypeOK
  RowShowsItsContract
  LastTickIsShown
PROPERTIES
  RowsNeverGoBack
CHECK_DEADLOCK FALSE
