\* Every array of up to 4 and every diff of up to 3 out of 3 strings, sorted
\* or not.
CONSTANTS
  Strings = {1, 2, 3}
  MaxSize = 4
  MaxDiffSize = 3
SPECIFICATION FairSpec
INVARIANTS
  EveryStringOwnedOnce
  DifferenceComputed
PROPERTY Termination
\* The function returns: the final state has no successor.
CHECK_DEADLOCK FALSE
