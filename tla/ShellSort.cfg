SPECIFICATION FairSpec
CONSTANTS
  nel = 7
  width = 2
  Value = {0, 1, 3}
  Word = 4
INVARIANTS InBounds Permuted Sorted
PROPERTY Terminates
