\* Three requests of two orders, one with an empty expiry; a core queue of
\* one, a compute thread that may hang, one restart of the core.
CONSTANTS
  Requests = {1, 2, 3}
  Keys = {"call", "put", "star"}
  OrdersOf <- RacingOrders
  Wildcards = {"star"}
  Unparsable = {"put"}
  Undated = {"star"}
  MayHang = TRUE
  Capacity = 1
  MaxRestarts = 1
SPECIFICATION FairSpec
INVARIANTS
  TypeOK
  NoPositionForgotten
PROPERTIES
  TrackedOrDropped
  UnitsAreAddedUp
  CheckedSalesAreCovered
CHECK_DEADLOCK FALSE
