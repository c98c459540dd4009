SPECIFICATION PiecesSpec
CONSTANTS
  c1 = c1
  c2 = c2
  NoMessage = NoMessage
INVARIANT HandshakesArrive
CHECK_DEADLOCK FALSE
