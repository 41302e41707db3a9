SPECIFICATION FairSpec
CONSTANTS
  Maps = {hm1, hm2}
  Strings = {empty, a}
  Empty = empty
  None = none
  MaxCalls = 9
INVARIANT Compact
PROPERTIES OnlyAdds DoublesWhenFull ReturnsIfFindable
CHECK_DEADLOCK FALSE
