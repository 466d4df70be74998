CONSTANTS
  HeaderLen = 2
  MaxUp = 4
  MaxDown = 2
  SendCap = 2
SPECIFICATION ReadingSpec
INVARIANTS SafeReclaim NothingLost
PROPERTIES ImplementsPipe SessionEnds
