CONSTANTS
  GreetLen = 1
  ReqLen = 2
  RespLen = 1
  MaxUp = 4
  MaxDown = 3
  SendCap = 1
SPECIFICATION Spec
INVARIANTS SafeReclaim NoSocketLeaks NothingLost
PROPERTIES ImplementsPipe SessionEnds
