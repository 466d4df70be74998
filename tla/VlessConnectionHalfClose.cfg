CONSTANTS
  HeaderLen = 1
  MaxUp = 2
  MaxDown = 2
  SendCap = 1
SPECIFICATION Spec
INVARIANTS HalfCloseKeepsOtherDirection
