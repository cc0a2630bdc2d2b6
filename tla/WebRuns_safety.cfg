SPECIFICATION WebSpec
CONSTANTS
  Clients = {a, b}
  Starter = a
  NoClient = nobody
  Limit = 2
  MaxDeltas = 1
  MaxFollowUps = 1
  MaxTroubles = 1
CHECK_DEADLOCK FALSE
INVARIANTS
    StreamWhole
    EndIsTold
PROPERTIES
    ClientSettles
