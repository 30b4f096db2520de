\* An order sent again after the stream broke, to a core that is well.
CONSTANTS
  Requests = {1, 2}
  Keys = {"call", "put", "star"}
  OrdersOf <- RetriedOrders
  Wildcards = {"star"}
  Unparsable = {"put"}
  Undated = {}
  MayHang = FALSE
  Capacity = 1
  MaxRestarts = 0
SPECIFICATION PromptSpec
PROPERTIES
  PortfolioIsServed
CHECK_DEADLOCK FALSE
