SPECIFICATION Spec
CONSTANTS
  Uuid <- MCUuid
  V4 <- MCV4
  V6 <- MCV6
  Domains <- MCDomains
  Chunks <- MCChunks
  Pads = {0, 2}
  Base = 2
  MaxFrame = 11
  Packets = 3
  MaxPieces = 2
INVARIANTS RequestHeard PacketsWhole StreamExact VisionTransparent
CHECK_DEADLOCK FALSE
