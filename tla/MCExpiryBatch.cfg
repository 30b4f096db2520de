\* One batch, built, extended and rebuilt between three ticks.
CONSTANTS
  Strikes = {1000, 1001}
  Lists <- OneOrTwo
  NarrowedStrike <- InFloat
  MinHeadroom = 2
  PastVector = {0, 3, 6}
  MaxTicks = 3
SPECIFICATION Spec
INVARIANTS
  TypeOK
  UnpricedShowsZeros
PROPERTIES
  ImplementsPricedSlice
CHECK_DEADLOCK FALSE
