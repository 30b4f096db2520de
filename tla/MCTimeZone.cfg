\* The compute thread parses while the publisher thread formats.
CONSTANTS
  Threads = {"compute", "publisher"}
  FunctionOf <- OneEach
  NewYork = NewYork
  Original = Original
  NoZone = NoZone
SPECIFICATION Spec
INVARIANTS
  WrongOnlyIfOverlapped
PROPERTIES
  LeakIsHarmless
