SPECIFICATION Spec
CONSTANTS
  MaxStarts = 3
  MaxOwn = 2
INVARIANTS FailsForCause UsersLast PinsLast
CHECK_DEADLOCK FALSE
