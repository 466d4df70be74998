SPECIFICATION FairSpec
CONSTANTS
  Threads = {t1, t2}
  kMaxQueueSize = 3
  kBatchLimit = 2
  MaxLines = 5
INVARIANTS NoLineLost ShutdownDrains DropsAreReported FileMissesNothing
PROPERTIES EveryLineIsWritten ShutdownReturns
CHECK_DEADLOCK FALSE
