\* One search of either function.  No memory may be had at any time.
CONSTANTS
  Character <- MCCharacter
  NULL = NULL
  Strings = {1, 2}
  Uninitialised = Uninitialised
  MallocMayFail = TRUE
  ReallocMayFail = TRUE
  CopyMayFail = TRUE
  MaxSize = 16
  Failed = Failed
  Uncountable = Uncountable
  Queries <- MCQueries
SPECIFICATION FairSpec
INVARIANTS
  TypeOK
  WritesInBuffer
  FillsTemplates
  CollectsAll
  Releases
PROPERTIES
  ReplacesAll
  SearchEnds
\* A search ends.
CHECK_DEADLOCK FALSE
