SPECIFICATION FairSpec
CONSTANTS
  Maps = {hm1, hm2}
  Strings = {empty, a}
  Empty = empty
  None = none
  MaxCalls = 9
PROPERTY AlwaysReturns
CHECK_DEADLOCK FALSE
