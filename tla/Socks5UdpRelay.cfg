CONSTANTS
  Dests = {a, b}
  None = None
  MaxApp = 2
  MaxFrames = 2
SPECIFICATION Spec
INVARIANTS StopIsFinal InOrder
  
CHECK_DEADLOCK FALSE
