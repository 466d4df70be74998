SPECIFICATION FairSpec
CONSTANTS
  Bite = 2
  Sizes = {1, 2, 3}
  Flight = 2
  Limit = 6
  Data = 2
  Updates = 1
INVARIANTS InOrderAlone Conserved FinIsLast NothingUnread
PROPERTY HandshakeEnds
CHECK_DEADLOCK FALSE
