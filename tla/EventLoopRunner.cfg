SPECIFICATION FairSpec
CONSTANTS
  N = 2
  ClientFds = {f7, f8}
INVARIANTS OneOwner NothingLeftClosed RootCauseReported ResultTellsFailure
PROPERTY StopEndsLoop
CHECK_DEADLOCK FALSE
