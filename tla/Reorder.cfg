SPECIFICATION FairSpec
CONSTANTS
  Fence = TRUE
  Word = 16
  MaxIter = 4
INVARIANTS Exclusive NeverReordered
PROPERTY Iterates
CHECK_DEADLOCK FALSE
