\* Arrays that grow up to three times, the empty one included, and every failure
\* of the allocator.
CONSTANTS
  Strings = {1, 2}
  NULL = NULL
  Uninitialised = Uninitialised
  Capacities = {0, 1, 3}
  ReallocMayFail = TRUE
  CopyMayFail = TRUE
  MaxSize = 5
SPECIFICATION Spec
INVARIANTS
  Terminated
PROPERTIES
  WritesInBlock
  ImplementsStringList
\* The bound on the size, or a write outside the block, is the end.
CHECK_DEADLOCK FALSE
