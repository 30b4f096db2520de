\* Two contracts, rows that come and go, scans of up to three pages.
CONSTANTS
  Keys = {"call", "put"}
  Patterns <- AllOrOne
  MaxWrites = 3
  MaxPages = 3
SPECIFICATION Spec
INVARIANTS
  TypeOK
  NothingMissed
  PortfolioIsWhole
  FailsOnlyForCause
PROPERTIES
  MonotonicReads
CHECK_DEADLOCK FALSE
