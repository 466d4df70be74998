SPECIFICATION OpsSpec
CONSTANTS
  b1 = b1  b2 = b2  o1 = o1  o2 = o2  o3 = o3  o4 = o4
  Frames <- MCFrames
  Fds <- MCFds
  Ops <- MCOps
  NoOp = NoOp
  Entries = 1
SYMMETRY Symmetry
INVARIANTS TableExact NobodyForgotten LateCqeIgnoredByServers
PROPERTY CancelledStaysCancelled
CHECK_DEADLOCK FALSE
