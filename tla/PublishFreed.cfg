\* One of two slices retires behind its job.
CONSTANTS
  Slices = {"far", "near"}
  Contracts = {"call", "put"}
  Listed <- OneOfEach
  TwoKeyed = {}
  ExpiryOf <- NearFirst
  DateOf <- OwnDates
  Modulus = 8
  FirstSeqnos = {0}
  QueueSize = 2
  MinHeadroom = 5
  MaxOpened = 2
  MaxTicks = 1
  MaxBatches = 2
SPECIFICATION Spec
INVARIANTS
  JobBatchIsLive
CHECK_DEADLOCK FALSE
