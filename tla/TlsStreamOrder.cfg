SPECIFICATION FairSpec
CONSTANTS
  Bite = 2
  Sizes = {3}
  Flight = 2
  Limit = 6
  Data = 1
  Updates = 0
INVARIANT InOrder
CHECK_DEADLOCK FALSE
